---- MODULE Spec2Model ----
(***************************************************************************)
(* Model of the vacancy statistics engine of kazantsev/                     *)
(* vacancies_staticstics.py: AvgCounter, SingleProcessVacanciesStatistics   *)
(* and ConcurrentFuturesVacanciesStatics, fed by the chunk files that       *)
(* kazantsev/year_separated.py writes.                                      *)
(*                                                                         *)
(* Numbers.  Salary.avg_ruble_amount is (from + to) / 2 * rate, a float     *)
(* that is a multiple of 0.5 for the rate-1 currency RUR.  The model keeps  *)
(* every salary amount and every AvgCounter sum in HALF RUBLES (twice the   *)
(* Python value), which is exact; AvgCounter.value is kept as the reduced   *)
(* fraction sum/len in the same unit, and int(value) divides by 2 again,    *)
(* truncating toward zero as Python's int() does.  Shares are kept in units *)
(* of 1/10000, the result of round(x, 4).                                   *)
(*                                                                         *)
(* Dicts.  A Python dict is a sequence of [k, v] entries with distinct      *)
(* keys, in insertion order: the order decides what sorted() does with      *)
(* ties and what a report prints.                                           *)
(*                                                                         *)
(* Two levels.  The accumulators, the single pass, the merge of chunk       *)
(* results, the report and the pandas variant work on Vacancy objects that  *)
(* carry their year, as Vacancy.__init__ builds them from a datetime.  The  *)
(* partitioner and the constructors reading CSV files work on rows of text  *)
(* fields and go through parse_datetime, Salary.parse_from_dict and         *)
(* Vacancy.parse_from_dict as the code does.                                *)
(***************************************************************************)
EXTENDS Integers, Sequences, FiniteSets

VARIABLES
    prof,       \* prof_name given to the statistics constructors
    rows,       \* data rows of the source CSV read so far, as parsed vacancies
    chunks,     \* chunk files: chunks[k] is the sequence of rows of chunk k
    sp,         \* SingleProcessVacanciesStatistics over the source CSV
    paths,      \* chunk_paths handed to ConcurrentFuturesVacanciesStatics
    cf,         \* ConcurrentFuturesVacanciesStatics under construction
    folded,     \* chunk results the constructor's loop has merged so far
    pc,         \* "read" | "fold" | "done"
    printed,    \* what Report(stats).print() read from the single-process stats
    ctr,        \* AvgCounter objects a, b, c of the accumulator specification
    hist,       \* the values add() has put into each of them
    last,       \* the last concat / unite_many call: operands before, result
    source,     \* the CSV file given to YearSeparated, as rows of text fields
    dir,        \* the files of YEAR_SEPARATED_PATH: name and rows written
    run,        \* the YearSeparated constructor call in progress or ended
    csv_files,  \* CSV files, as rows of text fields, given to the statistics
    agg,        \* the last statistics constructor call on them and its outcome
    cli,        \* the execute_vacancies call: its parameters and what it printed
    api,        \* the HhApiWorker.load_vacancies_to_csv call in progress or ended
    fetch       \* the CurrencyRates.from_api call: its tasks and its result

\* the callers around the engine: the console program and the two loaders
outer_vars == <<cli, api, fetch>>

text_vars == <<source, dir, run, csv_files, agg, outer_vars>>

vars == <<prof, rows, chunks, sp, paths, cf, folded, pc, printed, ctr, hist, last,
          source, dir, run, csv_files, agg, cli, api, fetch>>

----------------------------------------------------------------------------
(* Bounds of the model *)

\* rows of a source CSV that is partitioned by year
MaxRows == 3
\* rows of a source CSV that is partitioned arbitrarily
MaxRowsAny == 2
\* chunk files of an arbitrary partition
NumChunks == 2
\* add() calls per AvgCounter
MaxAdds == 2
\* cities of a drawn city table with any mix of accumulators
MaxShort == 3
\* cities of a drawn city table with at most two kinds of accumulators
MaxCities == 11
\* cities of the rarer kind in such a table
MaxFew == 2

\* months a rate table may span
MaxMonths == 3
\* the largest `pages` of a response of the vacancy API
MaxPages == 2

(* Program constants *)

\* the [:10] of the city views
Top10 == 10
\* datetime.now().year
CurrentYear == 2022

----------------------------------------------------------------------------
(* Integers *)

Abs(x) == IF x < 0 THEN -x ELSE x

RECURSIVE GCD(_, _)
GCD(a, b) == IF b = 0 THEN a ELSE GCD(b, a % b)

\* Python int(n / d) for d > 0: truncation toward zero
TruncDiv(n, d) == IF n >= 0 THEN n \div d ELSE -((-n) \div d)

\* the float n / d (d > 0), as a reduced fraction
Ratio(n, d) ==
    LET g == GCD(Abs(n), d)
    IN  <<n \div g, d \div g>>

\* an AvgCounter without the attribute `value`
NoValue == <<0, 0>>

----------------------------------------------------------------------------
(* Python dict, insertion ordered *)

Keys(d) == {d[i].k : i \in DOMAIN d}

Has(d, key) == \E i \in DOMAIN d : d[i].k = key

IndexOf(d, key) == CHOOSE i \in DOMAIN d : d[i].k = key

Get(d, key) == d[IndexOf(d, key)].v

\* d[key] = val
Put(d, key, val) ==
    IF Has(d, key)
    THEN [d EXCEPT ![IndexOf(d, key)] = [k |-> key, v |-> val]]
    ELSE Append(d, [k |-> key, v |-> val])

\* d.update(e)
RECURSIVE DictUpdate(_, _)
DictUpdate(d, e) ==
    IF e = <<>> THEN d
    ELSE DictUpdate(Put(d, Head(e).k, Head(e).v), Tail(e))

\* d == e for Python dicts: the same keys with the same values, in any order
SameDict(d, e) ==
    {<<d[i].k, d[i].v>> : i \in DOMAIN d} = {<<e[i].k, e[i].v>> : i \in DOMAIN e}

\* seq[:n]
Take(seq, n) == SubSeq(seq, 1, IF Len(seq) < n THEN Len(seq) ELSE n)

\* sorted(items, key=...) over items that carry their key: ascending, stable
RECURSIVE InsertAfterEqual(_, _)
InsertAfterEqual(sorted, x) ==
    IF sorted = <<>> THEN <<x>>
    ELSE IF Head(sorted).key <= x.key
         THEN <<Head(sorted)>> \o InsertAfterEqual(Tail(sorted), x)
         ELSE <<x>> \o sorted

RECURSIVE SortedFrom(_, _)
SortedFrom(done, items) ==
    IF items = <<>> THEN done
    ELSE SortedFrom(InsertAfterEqual(done, Head(items)), Tail(items))

\* a sort that puts an item before the items of equal key (not stable)
RECURSIVE InsertBeforeEqual(_, _)
InsertBeforeEqual(sorted, x) ==
    IF sorted = <<>> THEN <<x>>
    ELSE IF Head(sorted).key < x.key
         THEN <<Head(sorted)>> \o InsertBeforeEqual(Tail(sorted), x)
         ELSE <<x>> \o sorted

RECURSIVE SortedUnstableFrom(_, _)
SortedUnstableFrom(done, items) ==
    IF items = <<>> THEN done
    ELSE SortedUnstableFrom(InsertBeforeEqual(done, Head(items)), Tail(items))

SortedUnstable(items) == SortedUnstableFrom(<<>>, items)

Sorted(items) == SortedFrom(<<>>, items)

\* sorted(d.items(), key=lambda item: -item[1]) for a dict of numbers
SortedByValueDesc(d) ==
    LET keyed  == [i \in DOMAIN d |-> [k |-> d[i].k, v |-> d[i].v, key |-> -d[i].v]]
        sorted == Sorted(keyed)
    IN  [i \in DOMAIN sorted |-> [k |-> sorted[i].k, v |-> sorted[i].v]]

----------------------------------------------------------------------------
(* AvgCounter *)

\* AvgCounter(*values): value is set only when there are values
AvgCounterOf(values_sum, values_len) ==
    [sum   |-> values_sum,
     len   |-> values_len,
     value |-> IF values_len # 0 THEN Ratio(values_sum, values_len) ELSE NoValue]

\* the value rounded down instead
IntValueFloor(counter) == counter.value[1] \div (2 * counter.value[2])

\* int(counter.value), back in rubles
IntValue(counter) == TruncDiv(counter.value[1], 2 * counter.value[2])

\* counter.add(value)
add(counter, value) ==
    [sum   |-> counter.sum + value,
     len   |-> counter.len + 1,
     value |-> Ratio(counter.sum + value, counter.len + 1)]

RECURSIVE SumOf(_, _)
SumOf(counters, field) ==
    IF counters = <<>> THEN 0
    ELSE (IF field = "sum" THEN Head(counters).sum ELSE Head(counters).len)
         + SumOf(Tail(counters), field)

\* a merge that accumulates into its first operand and returns it
unite_many_in_place(counters) ==
    LET s == SumOf(counters, "sum")
        n == SumOf(counters, "len")
        merged == [sum |-> s, len |-> n,
                   value |-> IF n = 0 THEN NoValue ELSE Ratio(s, n)]
    IN  [raised |-> IF n = 0 THEN "ZeroDivisionError" ELSE "",
         out    |-> merged,
         args   |-> IF counters = <<>> \/ n = 0 THEN counters
                    ELSE [counters EXCEPT ![1] = merged]]

\* AvgCounter.unite_many(*counters): the call's outcome.  raised names the
\* exception of `counter.value = counter.sum / counter.len`; out is the
\* returned counter; args are the operand objects after the call.
unite_many(counters) ==
    LET s == SumOf(counters, "sum")
        n == SumOf(counters, "len")
    IN  [raised |-> IF n = 0 THEN "ZeroDivisionError" ELSE "",
         out    |-> [sum |-> s, len |-> n,
                     value |-> IF n = 0 THEN NoValue ELSE Ratio(s, n)],
         args   |-> counters]

\* self.concat(other_counter)
concat(self, other_counter) == unite_many(<<self, other_counter>>)

----------------------------------------------------------------------------
(* Vacancies: the rows of a CSV after Vacancy.parse_from_dict *)

\* Strings are tuples of characters, so that `in` is a real substring test.
VacancyNames == {<<"S", "E">>, <<"C">>}

ProfNames == {<<"E">>}

Cities == {"A", "B"}

Years == {2021, CurrentYear}

\* salary_from, salary_to; RUR is the one currency of the model
Salaries == {[from_amount |-> 100, to_amount |-> 201, currency |-> "RUR"],
             [from_amount |-> 50,  to_amount |-> 50,  currency |-> "RUR"]}

Vacancies ==
    [name : VacancyNames, salary : Salaries, area_name : Cities, year : Years]

\* Salary._exchange_rates[currency]
exchange_rate(currency) == CASE currency = "RUR" -> 1

\* an amount taken from the lower bound of the range alone
from_ruble_amount(salary) ==
    2 * salary.from_amount * exchange_rate(salary.currency)

\* Salary.avg_ruble_amount, in half rubles
avg_ruble_amount(salary) ==
    (salary.from_amount + salary.to_amount) * exchange_rate(salary.currency)

\* `needle in text` for Python strings
IsSubstring(needle, text) ==
    \E i \in 0..(Len(text) - Len(needle)) :
        SubSeq(text, i + 1, i + Len(needle)) = needle

----------------------------------------------------------------------------
(* SingleProcessVacanciesStatistics *)

\* the state __init__ sets up before _init_data reads the file
SingleProcess_init(prof_name) ==
    [prof_name             |-> prof_name,
     salaries_by_year      |-> <<>>,
     counts_by_year        |-> <<>>,
     prof_salaries_by_year |-> <<>>,
     prof_counts_by_year   |-> <<>>,
     salaries_by_cities    |-> <<>>,
     counts_by_cities      |-> <<>>,
     vacancies_count       |-> 0]

\* an update that counts a key once, when it is first seen
change_salary_and_count_once(salaries, counts, key, salary) ==
    IF ~Has(salaries, key)
    THEN [salaries |-> Put(salaries, key, AvgCounterOf(salary, 1)),
          counts   |-> Put(counts, key, 1)]
    ELSE [salaries |-> Put(salaries, key, add(Get(salaries, key), salary)),
          counts   |-> counts]

\* the inner function of _update_statistics; returns both dicts
change_salary_and_count_stats(salaries, counts, key, salary) ==
    IF ~Has(salaries, key)
    THEN [salaries |-> Put(salaries, key, AvgCounterOf(salary, 1)),
          counts   |-> Put(counts, key, 1)]
    ELSE [salaries |-> Put(salaries, key, add(Get(salaries, key), salary)),
          counts   |-> Put(counts, key, Get(counts, key) + 1)]

\* _update_statistics(vacancy)
update_statistics(st, vacancy) ==
    LET salary == avg_ruble_amount(vacancy.salary)
        year   == vacancy.year
        city   == vacancy.area_name
        ys == change_salary_and_count_stats(
                  st.salaries_by_year, st.counts_by_year, year, salary)
        cs == change_salary_and_count_stats(
                  st.salaries_by_cities, st.counts_by_cities, city, salary)
        ps == change_salary_and_count_stats(
                  st.prof_salaries_by_year, st.prof_counts_by_year, year, salary)
        base == [st EXCEPT !.salaries_by_year   = ys.salaries,
                           !.counts_by_year     = ys.counts,
                           !.vacancies_count    = st.vacancies_count + 1,
                           !.salaries_by_cities = cs.salaries,
                           !.counts_by_cities   = cs.counts]
    IN  IF ~IsSubstring(st.prof_name, vacancy.name)
        THEN base
        ELSE [base EXCEPT !.prof_salaries_by_year = ps.salaries,
                          !.prof_counts_by_year   = ps.counts]

\* _init_data over the data rows of one file
RECURSIVE init_data(_, _)
init_data(st, file_rows) ==
    IF file_rows = <<>> THEN st
    ELSE init_data(update_statistics(st, Head(file_rows)), Tail(file_rows))

\* dict(map(lambda item: (item[0], int(item[1].value)), d.items()))
IntValues(d) == [i \in DOMAIN d |-> [k |-> d[i].k, v |-> IntValue(d[i].v)]]

\* {datetime.now().year: 0}
ZeroThisYear == <<[k |-> CurrentYear, v |-> 0]>>

Single_salaries_by_year(st) == IntValues(st.salaries_by_year)

Single_counts_by_year(st) == st.counts_by_year

\* the property without its substitute for an empty map
Single_prof_salaries_no_placeholder(st) == IntValues(st.prof_salaries_by_year)

Single_prof_salaries_by_year(st) ==
    IF Len(st.prof_salaries_by_year) = 0 THEN ZeroThisYear
    ELSE IntValues(st.prof_salaries_by_year)

Single_prof_counts_by_year(st) ==
    IF Len(st.prof_counts_by_year) = 0 THEN ZeroThisYear
    ELSE st.prof_counts_by_year

\* SelectSeq with the test written out (the test reads st)
RECURSIVE FilterQualifying(_, _, _)
FilterQualifying(items, counts, total) ==
    IF items = <<>> THEN <<>>
    ELSE (IF 100 * Get(counts, Head(items).k) >= total
          THEN <<Head(items)>> ELSE <<>>)
         \o FilterQualifying(Tail(items), counts, total)

RECURSIVE FilterStrictlyAbove(_, _, _)
FilterStrictlyAbove(items, counts, total) ==
    IF items = <<>> THEN <<>>
    ELSE (IF 100 * Get(counts, Head(items).k) > total
          THEN <<Head(items)>> ELSE <<>>)
         \o FilterStrictlyAbove(Tail(items), counts, total)

one_percent_filter_strict(st, items_by_cities) ==
    FilterStrictlyAbove(items_by_cities, st.counts_by_cities, st.vacancies_count)

\* _one_percent_filter: count >= vacancies_count / 100, an int against a
\* float; the float quotient is exact when it is an integer and otherwise
\* at least 1/100 away from every integer, so 100 * count >= total decides it
one_percent_filter(st, items_by_cities) ==
    FilterQualifying(items_by_cities, st.counts_by_cities, st.vacancies_count)

\* round(count / total, 4) in units of 1/10000, for total > 0: the nearest
\* multiple; an exact half goes to the even neighbour, as Python rounds a
\* float that holds the half exactly
Round4(count, total) ==
    LET n == 10000 * count
        q == n \div total
        r == n % total
    IN  IF 2 * r < total THEN q
        ELSE IF 2 * r > total THEN q + 1
        ELSE IF q % 2 = 0 THEN q ELSE q + 1

\* top_10_salaries_by_cities
Single_top_10_salaries_by_cities(st) ==
    LET salaries       == IntValues(st.salaries_by_cities)
        filtered_items == one_percent_filter(st, salaries)
    IN  Take(SortedByValueDesc(filtered_items), Top10)

\* top_10_cities_shares
Single_top_10_cities_shares(st) ==
    LET accepted == one_percent_filter(st, st.counts_by_cities)
        result   == [i \in DOMAIN accepted |->
                        [k |-> accepted[i].k,
                         v |-> Round4(accepted[i].v, st.vacancies_count)]]
    IN  Take(SortedByValueDesc(result), Top10)

----------------------------------------------------------------------------
(* ConcurrentFuturesVacanciesStatics *)

\* the fields __init__ sets before the pool runs; the two top-10 views do
\* not exist until the constructor's last two calls
Concurrent_init(prof_name) ==
    [prof_name                 |-> prof_name,
     salaries_by_year          |-> <<>>,
     counts_by_year            |-> <<>>,
     prof_salaries_by_year     |-> <<>>,
     prof_counts_by_year       |-> <<>>,
     avg_counters_by_cities    |-> <<>>,
     vacancies_count           |-> 0,
     top_10_cities_shares      |-> <<>>,
     top_10_salaries_by_cities |-> <<>>]

\* _handle_one_chunk(path): the worker's result for one chunk file
handle_one_chunk(prof_name, file_rows) ==
    init_data(SingleProcess_init(prof_name), file_rows)

\* the loop over chunk_stats.avg_counters_by_cities.items()
RECURSIVE merge_cities(_, _)
merge_cities(c, items) ==
    IF items = <<>> THEN c
    ELSE LET city    == Head(items).k
             counter == Head(items).v
             merged  ==
                IF Has(c.avg_counters_by_cities, city)
                THEN concat(Get(c.avg_counters_by_cities, city), counter).out
                ELSE counter
         IN  merge_cities(
                [c EXCEPT !.avg_counters_by_cities =
                              Put(c.avg_counters_by_cities, city, merged),
                          !.vacancies_count = c.vacancies_count + counter.len],
                Tail(items))

\* one pass of `for chunk_stats in executor.map(...)`
merge_chunk(c, chunk_stats) ==
    merge_cities(
        [c EXCEPT
            !.salaries_by_year =
                DictUpdate(c.salaries_by_year, Single_salaries_by_year(chunk_stats)),
            !.counts_by_year =
                DictUpdate(c.counts_by_year, Single_counts_by_year(chunk_stats)),
            !.prof_salaries_by_year =
                DictUpdate(c.prof_salaries_by_year,
                           Single_prof_salaries_by_year(chunk_stats)),
            !.prof_counts_by_year =
                DictUpdate(c.prof_counts_by_year,
                           Single_prof_counts_by_year(chunk_stats))],
        chunk_stats.salaries_by_cities)

\* map(lambda item: (item[0], item[1].len), avg_counters_by_cities.items())
CityLens(c) ==
    [i \in DOMAIN c.avg_counters_by_cities |->
        [k |-> c.avg_counters_by_cities[i].k,
         v |-> c.avg_counters_by_cities[i].v.len]]

\* filter(lambda x: x[1] >= one_percent, counts)
accept_counts(c) == FilterQualifying(CityLens(c), CityLens(c), c.vacancies_count)

\* filter(lambda x: x[1].len >= one_percent, avg_counters_by_cities.items())
accepted_items(c) ==
    FilterQualifying(c.avg_counters_by_cities, CityLens(c), c.vacancies_count)

\* _init_counts_by_cities
init_counts_by_cities(c) ==
    LET top_10_counts == Take(SortedByValueDesc(accept_counts(c)), Top10)
    IN  [c EXCEPT !.top_10_cities_shares =
            [i \in DOMAIN top_10_counts |->
                [k |-> top_10_counts[i].k,
                 v |-> Round4(top_10_counts[i].v, c.vacancies_count)]]]

\* _init_city_salaries
init_city_salaries(c) ==
    LET salaries == IntValues(accepted_items(c))
    IN  [c EXCEPT !.top_10_salaries_by_cities =
            Take(SortedByValueDesc(salaries), Top10)]

Concurrent_salaries_by_year(c) ==
    IF Len(c.salaries_by_year) = 0 THEN ZeroThisYear ELSE c.salaries_by_year

Concurrent_counts_by_year(c) ==
    IF Len(c.counts_by_year) = 0 THEN ZeroThisYear ELSE c.counts_by_year

Concurrent_prof_salaries_by_year(c) ==
    IF Len(c.prof_salaries_by_year) = 0 THEN ZeroThisYear
    ELSE c.prof_salaries_by_year

Concurrent_prof_counts_by_year(c) ==
    IF Len(c.prof_counts_by_year) = 0 THEN ZeroThisYear
    ELSE c.prof_counts_by_year

Concurrent_top_10_salaries_by_cities(c) == c.top_10_salaries_by_cities

Concurrent_top_10_cities_shares(c) == c.top_10_cities_shares

----------------------------------------------------------------------------
(* YearSeparated: the chunk a data row is written to *)

\* a partitioner that opens a new chunk for every row
year_separated_row_new_chunk(files, row) == Append(files, <<row>>)

\* the body of the row loop: `if year not in current_writers` opens the
\* year's chunk and appends its path; the row is written to its year's chunk
year_separated_row(files, row) ==
    IF \E k \in DOMAIN files : files[k][1].year = row.year
    THEN LET k == CHOOSE j \in DOMAIN files : files[j][1].year = row.year
         IN  [files EXCEPT ![k] = Append(files[k], row)]
    ELSE Append(files, <<row>>)

Identity(n) == [i \in 1..n |-> i]

Permutations_of(n) ==
    {p \in [1..n -> 1..n] : \A i, j \in 1..n : i # j => p[i] # p[j]}

----------------------------------------------------------------------------
(* Values of the variables a specification does not use *)

NoCall == [op |-> "none", ix |-> <<>>, before |-> <<>>, raised |-> "",
           out |-> AvgCounterOf(0, 0)]

NoPrint == [done |-> FALSE,
            salaries_by_year |-> <<>>, counts_by_year |-> <<>>,
            prof_salaries_by_year |-> <<>>, prof_counts_by_year |-> <<>>,
            top_10_salaries_by_cities |-> <<>>, top_10_cities_shares |-> <<>>]

NoCounters == ctr = <<>> /\ hist = <<>> /\ last = NoCall

NoRun == [pc |-> "idle", path |-> <<>>, pos |-> 0, title_row |-> <<>>,
          datetime_column_id |-> 0, chunk_csv_paths |-> <<>>,
          current_writers |-> <<>>, opened_files |-> <<>>, raised |-> "",
          found |-> <<>>]

NoOutcome == [op |-> "none", file |-> <<>>, raised |-> "", returned |-> FALSE,
              st |-> SingleProcess_init(<<>>), vacancy_objects |-> <<>>]

\* no call of the console program or of a loader
NoOuter ==
    /\ cli = [pc |-> "idle"]
    /\ api = [pc |-> "idle"]
    /\ fetch = [pc |-> "idle"]

NoText ==
    /\ source = <<>>
    /\ dir = <<>>
    /\ run = NoRun
    /\ csv_files = <<>>
    /\ agg = NoOutcome
    /\ NoOuter

NoPipeline ==
    /\ prof = <<>>
    /\ rows = <<>>
    /\ chunks = <<>>
    /\ sp = SingleProcess_init(<<>>)
    /\ paths = <<>>
    /\ cf = Concurrent_init(<<>>)
    /\ folded = 0
    /\ pc = "idle"
    /\ printed = NoPrint

----------------------------------------------------------------------------
(* The pipeline: a source CSV is read row by row; YearSeparated writes each *)
(* row to the chunk of its year while SingleProcessVacanciesStatistics      *)
(* folds it; ConcurrentFuturesVacanciesStatics then merges the chunks.      *)

Init ==
    /\ prof \in ProfNames
    /\ rows = <<>>
    /\ chunks = <<>>
    /\ sp = SingleProcess_init(prof)
    /\ paths = <<>>
    /\ cf = Concurrent_init(prof)
    /\ folded = 0
    /\ pc = "read"
    /\ printed = NoPrint
    /\ NoCounters
    /\ NoText

\* the next data row of the source: SingleProcess folds it (_init_data's loop
\* body) and YearSeparated writes it to its year's chunk
ReadRow(row) ==
    /\ pc = "read"
    /\ Len(rows) < MaxRows
    /\ rows' = Append(rows, row)
    /\ sp' = update_statistics(sp, row)
    /\ chunks' = year_separated_row(chunks, row)
    /\ UNCHANGED <<prof, paths, cf, folded, pc, printed, ctr, hist, last, text_vars>>

\* ConcurrentFuturesVacanciesStatics(chunk_paths, prof_name), up to the pool
StartConcurrent(chunk_paths) ==
    /\ pc = "read"
    /\ paths' = chunk_paths
    /\ cf' = Concurrent_init(prof)
    /\ folded' = 0
    /\ pc' = "fold"
    /\ UNCHANGED <<prof, rows, chunks, sp, printed, ctr, hist, last, text_vars>>

\* from_year_separated: chunk_csv_paths, in the order the years first occur
from_year_separated == StartConcurrent(Identity(Len(chunks)))

\* from_chunk_folder: chunk_folder.rglob('*'), in the directory's own order
from_chunk_folder == \E p \in Permutations_of(Len(chunks)) : StartConcurrent(p)

\* one pass of the loop over executor.map, which yields the chunk results in
\* the order of chunk_paths
FoldChunk ==
    /\ pc = "fold"
    /\ folded < Len(paths)
    /\ cf' = merge_chunk(cf, handle_one_chunk(prof, chunks[paths[folded + 1]]))
    /\ folded' = folded + 1
    /\ UNCHANGED <<prof, rows, chunks, sp, paths, pc, printed, ctr, hist, last, text_vars>>

\* the end of the constructor: _init_counts_by_cities(), _init_city_salaries()
Finish ==
    /\ pc = "fold"
    /\ folded = Len(paths)
    /\ cf' = init_city_salaries(init_counts_by_cities(cf))
    /\ pc' = "done"
    /\ UNCHANGED <<prof, rows, chunks, sp, paths, folded, printed, ctr, hist, last, text_vars>>

Next ==
    \/ \E row \in Vacancies : ReadRow(row)
    \/ from_year_separated
    \/ from_chunk_folder
    \/ FoldChunk
    \/ Finish

Spec == Init /\ [][Next]_vars

----------------------------------------------------------------------------
(* The same pipeline over chunk files that hold an arbitrary partition of   *)
(* the source: the constructor takes any chunk_paths.                       *)

InitAny ==
    /\ prof \in ProfNames
    /\ rows = <<>>
    /\ chunks \in {[i \in 1..n |-> <<>>] : n \in 0..NumChunks}
    /\ sp = SingleProcess_init(prof)
    /\ paths = <<>>
    /\ cf = Concurrent_init(prof)
    /\ folded = 0
    /\ pc = "read"
    /\ printed = NoPrint
    /\ NoCounters
    /\ NoText

\* the next data row of the source, which is also a row of chunk file k
ReadRowAny(row, k) ==
    /\ pc = "read"
    /\ Len(rows) < MaxRowsAny
    /\ rows' = Append(rows, row)
    /\ sp' = update_statistics(sp, row)
    /\ chunks' = [chunks EXCEPT ![k] = Append(chunks[k], row)]
    /\ UNCHANGED <<prof, paths, cf, folded, pc, printed, ctr, hist, last, text_vars>>

from_paths == StartConcurrent(Identity(Len(chunks)))

NextAny ==
    \/ \E row \in Vacancies, k \in DOMAIN chunks : ReadRowAny(row, k)
    \/ from_paths
    \/ FoldChunk
    \/ Finish

SpecAny == InitAny /\ [][NextAny]_vars

----------------------------------------------------------------------------
(* AvgCounter on its own: three counters a, b, c are built by add() and     *)
(* merged by concat and unite_many.                                         *)

\* values handed to add(), in half rubles
AddValues == {0, 301}

Counters == 1..3

InitAvg ==
    /\ NoPipeline
    /\ NoText
    /\ ctr = [i \in Counters |-> AvgCounterOf(0, 0)]
    /\ hist = [i \in Counters |-> <<>>]
    /\ last = NoCall

\* ctr[i].add(value)
AddValue(i, value) ==
    /\ Len(hist[i]) < MaxAdds
    /\ ctr' = [ctr EXCEPT ![i] = add(ctr[i], value)]
    /\ hist' = [hist EXCEPT ![i] = Append(hist[i], value)]
    /\ last' = NoCall
    /\ UNCHANGED <<prof, rows, chunks, sp, paths, cf, folded, pc, printed, text_vars>>

\* the operand objects after a call, written back to where they live
After(ix, args) ==
    [i \in Counters |->
        IF \E n \in DOMAIN ix : ix[n] = i
        THEN args[CHOOSE n \in DOMAIN ix : ix[n] = i /\ \A m \in DOMAIN ix : ix[m] = i => m <= n]
        ELSE ctr[i]]

\* ctr[i].concat(ctr[j]).  `last` holds one call (or one chain of two): a
\* call is recorded from a state that holds none, and add() clears it
Concat(i, j) ==
    LET r == concat(ctr[i], ctr[j])
    IN  /\ last.op = "none"
        /\ last' = [op |-> "concat", ix |-> <<i, j>>,
                    before |-> <<ctr[i], ctr[j]>>,
                    raised |-> r.raised, out |-> r.out]
        /\ ctr' = After(<<i, j>>, r.args)
        /\ UNCHANGED <<hist, prof, rows, chunks, sp, paths, cf, folded, pc, printed, text_vars>>

\* AvgCounter.unite_many(ctr[ix[1]], ctr[ix[2]], ctr[ix[3]])
UniteMany(ix) ==
    LET operands == [n \in DOMAIN ix |-> ctr[ix[n]]]
        r == unite_many(operands)
    IN  /\ last.op = "none"
        /\ last' = [op |-> "unite_many", ix |-> ix, before |-> operands,
                    raised |-> r.raised, out |-> r.out]
        /\ ctr' = After(ix, r.args)
        /\ UNCHANGED <<hist, prof, rows, chunks, sp, paths, cf, folded, pc, printed, text_vars>>

\* ctr[i].concat(ctr[j]).concat(ctr[k]): the second call of the chain, made
\* when the first returned
ConcatResultWith(k) ==
    /\ last.op = "concat"
    /\ last.raised = ""
    /\ LET r == concat(last.out, ctr[k])
       IN  /\ last' = [op |-> "concat_left", ix |-> last.ix \o <<k>>,
                       before |-> last.before \o <<ctr[k]>>,
                       raised |-> r.raised, out |-> r.out]
           /\ ctr' = After(<<k>>, <<r.args[2]>>)
    /\ UNCHANGED <<hist, prof, rows, chunks, sp, paths, cf, folded, pc, printed, text_vars>>

\* ctr[k].concat(ctr[i].concat(ctr[j])): the outer call
ConcatWithResult(k) ==
    /\ last.op = "concat"
    /\ last.raised = ""
    /\ LET r == concat(ctr[k], last.out)
       IN  /\ last' = [op |-> "concat_right", ix |-> <<k>> \o last.ix,
                       before |-> <<ctr[k]>> \o last.before,
                       raised |-> r.raised, out |-> r.out]
           /\ ctr' = After(<<k>>, <<r.args[1]>>)
    /\ UNCHANGED <<hist, prof, rows, chunks, sp, paths, cf, folded, pc, printed, text_vars>>

NextAvg ==
    \/ \E i \in Counters, value \in AddValues : AddValue(i, value)
    \/ \E i, j \in Counters : Concat(i, j)
    \/ \E ix \in Permutations_of(3) : UniteMany(ix)
    \/ \E k \in Counters : ConcatResultWith(k)
    \/ \E k \in Counters : ConcatWithResult(k)

SpecAvg == InitAvg /\ [][NextAvg]_vars

----------------------------------------------------------------------------
(* The city views on their own.  The per-city accumulators are drawn: the   *)
(* i-th city met is named i and holds any of a few (len, sum) pairs, each   *)
(* of which adds of salaries reach.  The statistics objects are the ones a  *)
(* source with these cities, all rows of the current year and no title      *)
(* matching prof_name, leaves behind; rows and chunks are not held.         *)

\* (len, sum in half rubles): means 100.5, 50, 50 and 100.5 rubles
CityChoices == {[len |-> 9,   sum |-> 1809],
                [len |-> 10,  sum |-> 1000],
                [len |-> 981, sum |-> 98100],
                [len |-> 982, sum |-> 197382]}

\* the two kinds of accumulators a long table mixes, <<the few, the many>>;
\* eleven cities of 3000 or 3001 records have the same rounded share
CityPairs == {<<[len |-> 9,   sum |-> 1809],   [len |-> 10,  sum |-> 1000]>>,
              <<[len |-> 10,  sum |-> 1000],   [len |-> 9,   sum |-> 1809]>>,
              <<[len |-> 9,   sum |-> 1809],   [len |-> 981, sum |-> 98100]>>,
              <<[len |-> 981, sum |-> 98100],  [len |-> 9,   sum |-> 1809]>>,
              <<[len |-> 3000, sum |-> 300000], [len |-> 3001, sum |-> 603201]>>,
              <<[len |-> 3001, sum |-> 603201], [len |-> 3000, sum |-> 300000]>>}

\* tables of n cities, all of a pair's second kind but for a few places
LongTables(n) ==
    {[i \in 1..n |-> IF i \in few THEN pair[1] ELSE pair[2]] :
        few \in {places \in SUBSET (1..n) : Cardinality(places) <= MaxFew},
        pair \in CityPairs}

CityTables ==
    UNION ({[1..n -> CityChoices] : n \in 0..MaxShort}
           \cup {LongTables(n) : n \in (MaxShort + 1)..MaxCities})

RECURSIVE TableSum(_, _)
TableSum(table, field) ==
    IF table = <<>> THEN 0
    ELSE (IF field = "sum" THEN Head(table).sum ELSE Head(table).len)
         + TableSum(Tail(table), field)

\* SingleProcessVacanciesStatistics after a source with the table's cities
SingleWith(prof_name, table) ==
    LET n == TableSum(table, "len")
        s == TableSum(table, "sum")
    IN  [SingleProcess_init(prof_name) EXCEPT
            !.salaries_by_year =
                IF n = 0 THEN <<>>
                ELSE <<[k |-> CurrentYear, v |-> AvgCounterOf(s, n)]>>,
            !.counts_by_year =
                IF n = 0 THEN <<>> ELSE <<[k |-> CurrentYear, v |-> n]>>,
            !.salaries_by_cities =
                [i \in DOMAIN table |->
                    [k |-> i, v |-> AvgCounterOf(table[i].sum, table[i].len)]],
            !.counts_by_cities =
                [i \in DOMAIN table |-> [k |-> i, v |-> table[i].len]],
            !.vacancies_count = n]

InitCity ==
    /\ prof \in ProfNames
    /\ rows = <<>>
    /\ chunks = <<>>
    /\ paths = <<>>
    /\ folded = 0
    /\ pc = "fold"
    /\ printed = NoPrint
    /\ NoCounters
    /\ NoText
    /\ \E table \in CityTables :
          /\ sp = SingleWith(prof, table)
          /\ cf = IF table = <<>> THEN Concurrent_init(prof)
                  ELSE merge_chunk(Concurrent_init(prof), SingleWith(prof, table))

\* Report(stats).print() over the single-process statistics: reads the six
\* report properties
Report_print ==
    /\ printed' = [done |-> TRUE,
                   salaries_by_year      |-> Single_salaries_by_year(sp),
                   counts_by_year        |-> Single_counts_by_year(sp),
                   prof_salaries_by_year |-> Single_prof_salaries_by_year(sp),
                   prof_counts_by_year   |-> Single_prof_counts_by_year(sp),
                   top_10_salaries_by_cities |-> Single_top_10_salaries_by_cities(sp),
                   top_10_cities_shares      |-> Single_top_10_cities_shares(sp)]
    /\ UNCHANGED <<prof, rows, chunks, sp, paths, cf, folded, pc, ctr, hist, last, text_vars>>

NextCity ==
    \/ Finish
    \/ Report_print

SpecCity == InitCity /\ [][NextCity]_vars

----------------------------------------------------------------------------
(* What the claims speak of, computed from the rows themselves *)

YearsPresent == {rows[i].year : i \in DOMAIN rows}

Matches(row) == IsSubstring(prof, row.name)

MatchingYears == {rows[i].year : i \in {j \in DOMAIN rows : Matches(rows[j])}}

RECURSIVE AmountOfRows(_, _, _)
AmountOfRows(file_rows, year, matching_only) ==
    IF file_rows = <<>> THEN 0
    ELSE (IF Head(file_rows).year = year /\ (~matching_only \/ Matches(Head(file_rows)))
          THEN avg_ruble_amount(Head(file_rows).salary) ELSE 0)
         + AmountOfRows(Tail(file_rows), year, matching_only)

CountOfRows(year, matching_only) ==
    Cardinality({i \in DOMAIN rows :
        rows[i].year = year /\ (~matching_only \/ Matches(rows[i]))})

\* the mean salary of the year's rows, rounded as int() rounds, in rubles
MeanOfRows(year, matching_only) ==
    TruncDiv(AmountOfRows(rows, year, matching_only),
             2 * CountOfRows(year, matching_only))

Entries(d) == {<<d[i].k, d[i].v>> : i \in DOMAIN d}

AllChunksHoldRows == \A k \in DOMAIN chunks : chunks[k] # <<>>

----------------------------------------------------------------------------
(* Claims about the merge of chunk results *)

----------------------------------------------------------------------------
(* Claims about AvgCounter *)

RECURSIVE ValuesOf(_)
\* every value added to the operands ix of a call, operand after operand
ValuesOf(ix) ==
    IF ix = <<>> THEN <<>> ELSE hist[Head(ix)] \o ValuesOf(Tail(ix))

RECURSIVE SeqSum(_)
SeqSum(values) ==
    IF values = <<>> THEN 0 ELSE Head(values) + SeqSum(Tail(values))

RECURSIVE BuiltByAdding(_)
\* the counter a fresh AvgCounter becomes by add() of the values in turn
BuiltByAdding(values) ==
    IF values = <<>> THEN AvgCounterOf(0, 0)
    ELSE add(BuiltByAdding(SubSeq(values, 1, Len(values) - 1)), values[Len(values)])

OperandsLen == SumOf(last.before, "len")

C7_MergeWithEmptyNeverRaises ==
    last.op # "none" =>
        /\ last.raised = ""
        /\ (last.op = "concat" /\ last.before[1].len = 0) =>
              last.out = last.before[2]
        /\ (last.op = "concat" /\ last.before[2].len = 0) =>
              last.out = last.before[1]
        /\ OperandsLen = 0 => last.out = AvgCounterOf(0, 0)

----------------------------------------------------------------------------
(* Claims about the two city views.  counters is a variant's city table,   *)
(* city -> AvgCounter in first-encountered order.                          *)

RecordsOf(counters, city) == Get(counters, city).len

AllRecords(counters) == SumOf([i \in DOMAIN counters |-> counters[i].v], "len")

\* the cities with at least one percent of all records
Qualifying(counters) ==
    {city \in Keys(counters) :
        100 * RecordsOf(counters, city) >= AllRecords(counters)}

MeanOf(counters, city) ==
    TruncDiv(Get(counters, city).sum, 2 * RecordsOf(counters, city))

Min(a, b) == IF a <= b THEN a ELSE b

\* a view holds qualifying cities only, and all of them when they fit
HoldsTheQualifying(view, counters) ==
    /\ Keys(view) \subseteq Qualifying(counters)
    /\ Cardinality(Qualifying(counters)) <= Top10 =>
          Keys(view) = Qualifying(counters)

\* C8: in both city views of both variants a city is retained exactly when
\* its count is at least total / 100, the boundary included, with the whole
\* corpus count as the denominator of both views: the filter of either
\* variant keeps exactly those cities, and the views hold no other city.
C8_OnePercentRule ==
    /\ sp.vacancies_count = AllRecords(sp.salaries_by_cities)
    /\ cf.vacancies_count = AllRecords(cf.avg_counters_by_cities)
    /\ Keys(one_percent_filter(sp, IntValues(sp.salaries_by_cities)))
          = Qualifying(sp.salaries_by_cities)
    /\ Keys(one_percent_filter(sp, sp.counts_by_cities))
          = Qualifying(sp.salaries_by_cities)
    /\ Keys(accept_counts(cf)) = Qualifying(cf.avg_counters_by_cities)
    /\ Keys(accepted_items(cf)) = Qualifying(cf.avg_counters_by_cities)
    /\ printed.done =>
          /\ HoldsTheQualifying(printed.top_10_salaries_by_cities,
                                sp.salaries_by_cities)
          /\ HoldsTheQualifying(printed.top_10_cities_shares,
                                sp.salaries_by_cities)
    /\ pc = "done" =>
          /\ HoldsTheQualifying(cf.top_10_salaries_by_cities,
                                cf.avg_counters_by_cities)
          /\ HoldsTheQualifying(cf.top_10_cities_shares,
                                cf.avg_counters_by_cities)

\* C8 witness: of 1000 records, a city with 10 is in all four views and a
\* city with 9 is in none
C8_Witness ==
    /\ printed.done
    /\ pc = "done"
    /\ sp.vacancies_count = 1000
    /\ cf.vacancies_count = 1000
    /\ \E city \in Keys(sp.counts_by_cities) :
          /\ Get(sp.counts_by_cities, city) = 10
          /\ Has(printed.top_10_salaries_by_cities, city)
          /\ Has(printed.top_10_cities_shares, city)
          /\ Has(cf.top_10_salaries_by_cities, city)
          /\ Has(cf.top_10_cities_shares, city)
    /\ \E city \in Keys(sp.counts_by_cities) :
          /\ Get(sp.counts_by_cities, city) = 9
          /\ ~Has(printed.top_10_salaries_by_cities, city)
          /\ ~Has(printed.top_10_cities_shares, city)
          /\ ~Has(cf.top_10_salaries_by_cities, city)
          /\ ~Has(cf.top_10_cities_shares, city)

\* city a comes before city b in a descending sort by integer mean that
\* leaves cities of equal mean in first-encountered order
RanksBefore(counters, a, b) ==
    \/ MeanOf(counters, a) > MeanOf(counters, b)
    \/ /\ MeanOf(counters, a) = MeanOf(counters, b)
       /\ IndexOf(counters, a) < IndexOf(counters, b)

IsTopSalaries(view, counters) ==
    /\ Len(view) = Min(Top10, Cardinality(Qualifying(counters)))
    /\ Len(view) <= Top10
    /\ \A n \in DOMAIN view :
          /\ view[n].k \in Qualifying(counters)
          /\ view[n].v = MeanOf(counters, view[n].k)
    /\ \A m, n \in DOMAIN view :
          m < n => RanksBefore(counters, view[m].k, view[n].k)
    /\ \A city \in Qualifying(counters) \ Keys(view) :
          \A n \in DOMAIN view : RanksBefore(counters, view[n].k, city)

\* C9: top_10_salaries_by_cities is the first 10 of the qualifying cities
\* sorted by integer mean salary, highest first, with cities of equal mean
\* in first-encountered order: at most 10 entries, and never a city that
\* does not qualify.
C9_TopSalariesByCities ==
    /\ printed.done =>
          IsTopSalaries(printed.top_10_salaries_by_cities, sp.salaries_by_cities)
    /\ pc = "done" =>
          IsTopSalaries(cf.top_10_salaries_by_cities, cf.avg_counters_by_cities)

\* C9 witness: eleven qualifying cities of two different means, printed and
\* merged, with a city left out that ties with the last one kept
C9_Witness ==
    /\ printed.done
    /\ pc = "done"
    /\ Cardinality(Qualifying(sp.salaries_by_cities)) = Top10 + 1
    /\ Len(printed.top_10_salaries_by_cities) = Top10
    /\ Len(cf.top_10_salaries_by_cities) = Top10
    /\ printed.top_10_salaries_by_cities[1].v
          > printed.top_10_salaries_by_cities[Top10].v
    /\ \E city \in Qualifying(sp.salaries_by_cities) :
          /\ ~Has(printed.top_10_salaries_by_cities, city)
          /\ MeanOf(sp.salaries_by_cities, city)
                = printed.top_10_salaries_by_cities[Top10].v

\* v is count / total rounded to four decimals, in units of 1/10000
IsRoundedShare(v, count, total) ==
    /\ 0 <= v /\ v <= 10000
    /\ 2 * Abs(v * total - 10000 * count) <= total

IsTopShares(view, counters) ==
    /\ Len(view) = Min(Top10, Cardinality(Qualifying(counters)))
    /\ Len(view) <= Top10
    /\ \A n \in DOMAIN view :
          /\ view[n].k \in Qualifying(counters)
          /\ IsRoundedShare(view[n].v, RecordsOf(counters, view[n].k),
                            AllRecords(counters))
    /\ \A m, n \in DOMAIN view : m < n => view[m].v >= view[n].v
    /\ \A city \in Qualifying(counters) \ Keys(view) :
          \A n \in DOMAIN view :
              RecordsOf(counters, city) <= RecordsOf(counters, view[n].k)

----------------------------------------------------------------------------
(* CSV text.  Above, a record is a Vacancy object that carries its year.    *)
(* From here on a file is what csv.reader yields: a sequence of rows, each  *)
(* a sequence of text fields, and the year of a row is whatever             *)
(* parse_datetime makes of its published_at field.                          *)

\* rows under the header of a drawn CSV file
MaxTextRows == 2

TitleRow == <<"name", "salary_from", "salary_to", "salary_currency",
              "area_name", "published_at">>

\* a header without the timestamp column
TitleRowNoDate == <<"name", "salary_from", "salary_to", "salary_currency",
                    "area_name">>

\* ciso8601.parse_datetime: the year written in a well-formed ISO-8601 text
TimestampYear ==
    [t \in {"2021-07-05T20:45:58+0300", "2022-01-10T09:00:00+0300"} |->
        IF t = "2021-07-05T20:45:58+0300" THEN 2021 ELSE CurrentYear]

\* int(float(text)) of the texts that are numbers
NumberText == [t \in {"50", "100", "201"} |->
                 IF t = "50" THEN 50 ELSE IF t = "100" THEN 100 ELSE 201]

\* Salary._exchange_rates
CurrencyText == {"RUR"}

None == [none |-> TRUE, year |-> 0]

\* the data rows a source may hold: two well-formed rows of different
\* years, then one row for each way of being malformed
TextRows ==
    { <<"SE", "100", "201", "RUR", "A", "2021-07-05T20:45:58+0300">>,
      <<"C", "50", "50", "RUR", "B", "2022-01-10T09:00:00+0300">>,
      <<"SE", "100">>,
      <<"SE", "", "201", "RUR", "A", "2021-07-05T20:45:58+0300">>,
      <<"SE", "abc", "201", "RUR", "A", "2021-07-05T20:45:58+0300">>,
      <<"SE", "100", "201", "XYZ", "A", "2021-07-05T20:45:58+0300">>,
      <<"SE", "100", "201", "RUR", "A", "yesterday">> }

RowSeqs(n) == UNION {[1..m -> TextRows] : m \in 0..n}

\* a CSV file: empty, or a header and at most MaxTextRows rows under it
TextFiles ==
    {<<>>} \cup {<<h>> \o body : h \in {TitleRow, TitleRowNoDate},
                                 body \in RowSeqs(MaxTextRows)}

_parse_datetime_with_ciso8601(str_datetime) ==
    IF str_datetime \in DOMAIN TimestampYear
    THEN [raised |-> "",
          value |-> [none |-> FALSE, year |-> TimestampYear[str_datetime]]]
    ELSE [raised |-> "ValueError", value |-> None]

\* parse_datetime as it would be with a return statement
parse_datetime_returning(str_datetime) ==
    _parse_datetime_with_ciso8601(str_datetime)

\* parse_datetime calls the ciso8601 parser and drops what it returns
parse_datetime(str_datetime) ==
    [raised |-> _parse_datetime_with_ciso8601(str_datetime).raised,
     value |-> None]

\* the parser with its result returned, or parse_datetime as it is
parse_with(returning, str_datetime) ==
    IF returning THEN parse_datetime_returning(str_datetime)
    ELSE parse_datetime(str_datetime)

\* an index that takes the first column when the value is absent
index_or_first(row, value) ==
    IF \E i \in 1..Len(row) : row[i] = value
    THEN CHOOSE i \in 1..Len(row) :
            row[i] = value /\ \A j \in 1..(i - 1) : row[j] # value
    ELSE 1

\* list.index, 1-based; 0 stands for the ValueError of an absent value
index(row, value) ==
    IF \E i \in 1..Len(row) : row[i] = value
    THEN CHOOSE i \in 1..Len(row) :
            row[i] = value /\ \A j \in 1..(i - 1) : row[j] # value
    ELSE 0

\* f'{year}'
DigitChar == <<"0", "1", "2", "3", "4", "5", "6", "7", "8", "9">>

RECURSIVE Str(_)
Str(n) == IF n < 10 THEN <<DigitChar[n + 1]>>
          ELSE Append(Str(n \div 10), DigitChar[(n % 10) + 1])

\* str.split(sep) of a text kept as a tuple of characters
RECURSIVE SplitFrom(_, _, _, _)
SplitFrom(text, sep, i, part) ==
    IF i > Len(text) THEN <<part>>
    ELSE IF text[i] = sep THEN <<part>> \o SplitFrom(text, sep, i + 1, <<>>)
    ELSE SplitFrom(text, sep, i + 1, Append(part, text[i]))

Split(text, sep) == SplitFrom(text, sep, 1, <<>>)

\* sep.join(parts)
RECURSIVE Join(_, _)
Join(parts, sep) ==
    IF Len(parts) = 1 THEN parts[1]
    ELSE parts[1] \o <<sep>> \o Join(Tail(parts), sep)

_get_year_path(name, year) ==
    LET split_filename == Split(name, ".")
        first == split_filename[1] \o <<"_">> \o Str(year)
    IN Join(<<first>> \o Tail(split_filename), ".")

----------------------------------------------------------------------------
(* YearSeparated(path, datetime_column_name): the constructor empties the   *)
(* directory, then reads the source row by row.                             *)

\* the default of the datetime_column_name parameter
DatetimeColumnName == "published_at"

\* names of source files: v.c and w.c
SourceNames == {<<"v", ".", "c">>, <<"w", ".", "c">>}

ClosedFile(file_rows) == [rows |-> file_rows, open |-> FALSE]

\* what YEAR_SEPARATED_PATH may hold before the first call: nothing, a
\* stranger's file, or a file with the name of a chunk
PreExisting ==
    { <<>>,
      <<[k |-> <<"o", ".", "c">>, v |-> ClosedFile(<<TitleRow>>)]>>,
      <<[k |-> <<"v", "_", "2", "0", "2", "1", ".", "c">>,
         v |-> ClosedFile(<<TitleRow, <<"C", "50">>>>)]>> }

\* a directory that is created if missing and otherwise left as it is
mkdir_exist_ok(directory) == directory

\* shutil.rmtree(YEAR_SEPARATED_PATH, ignore_errors=True), then mkdir()
rmtree_mkdir(directory) == <<>>

\* csv.writer(file).writerow(row) on the file with this name
writerow(directory, name, row) ==
    LET file == Get(directory, name)
    IN Put(directory, name, [file EXCEPT !.rows = Append(@, row)])

\* the body of the constructor's loop for one row of the source, with
\* the function that line 53 calls for the row's timestamp
year_separated_step_using(returning, r, directory, row) ==
    IF r.datetime_column_id = 0
    THEN LET id == index(row, DatetimeColumnName)
         IN IF id = 0
            THEN [run |-> [r EXCEPT !.pc = "raised", !.raised = "ValueError"],
                  dir |-> directory]
            ELSE [run |-> [r EXCEPT !.datetime_column_id = id,
                                    !.title_row = row],
                  dir |-> directory]
    ELSE IF Len(row) # Len(r.title_row)
    THEN [run |-> r, dir |-> directory]
    ELSE LET parsed == parse_with(returning, row[r.datetime_column_id])
         IN IF parsed.raised # ""
            THEN [run |-> [r EXCEPT !.pc = "raised", !.raised = parsed.raised],
                  dir |-> directory]
            ELSE IF parsed.value.none
            THEN [run |-> [r EXCEPT !.pc = "raised",
                                    !.raised = "AttributeError"],
                  dir |-> directory]
            ELSE LET year == parsed.value.year
                     year_path == _get_year_path(r.path, year)
                     fresh == ~Has(r.current_writers, year)
                     opened ==
                         IF fresh
                         THEN [r EXCEPT
                                 !.chunk_csv_paths = Append(@, year_path),
                                 !.opened_files = Append(@, year_path),
                                 !.current_writers = Put(@, year, year_path)]
                         ELSE r
                     created ==
                         IF fresh
                         THEN writerow(
                                 Put(directory, year_path,
                                     [rows |-> <<>>, open |-> TRUE]),
                                 year_path, r.title_row)
                         ELSE directory
                 IN [run |-> opened,
                     dir |-> writerow(created,
                                      Get(opened.current_writers, year), row)]

\* the body of the constructor's loop as the code has it
year_separated_step(r, directory, row) ==
    year_separated_step_using(FALSE, r, directory, row)

\* file.close() for every file of opened_files
RECURSIVE close_all(_, _)
close_all(directory, names) ==
    IF names = <<>> THEN directory
    ELSE LET file == Get(directory, names[1])
         IN close_all(Put(directory, names[1], [file EXCEPT !.open = FALSE]),
                      Tail(names))

InitYS ==
    /\ NoPipeline
    /\ NoCounters
    /\ source = <<>>
    /\ dir \in PreExisting
    /\ run = NoRun
    /\ csv_files = <<>>
    /\ agg = NoOutcome
    /\ NoOuter

\* the call YearSeparated(path), up to the opening of the source: the
\* earlier call, if any, has returned or raised; found keeps what the
\* directory held when the call began
YearSeparated_init(path, file) ==
    /\ run.pc \in {"idle", "done", "raised"}
    /\ source' = file
    /\ dir' = rmtree_mkdir(dir)
    /\ run' = [NoRun EXCEPT !.pc = "rows", !.path = path, !.found = dir]
    /\ UNCHANGED <<prof, rows, chunks, sp, paths, cf, folded, pc, printed,
                   ctr, hist, last, csv_files, outer_vars, agg>>

\* one turn of `for row in reader`
YearSeparated_row ==
    /\ run.pc = "rows"
    /\ run.pos < Len(source)
    /\ LET after == year_separated_step([run EXCEPT !.pos = @ + 1], dir,
                                        source[run.pos + 1])
       IN /\ run' = after.run
          /\ dir' = after.dir
    /\ UNCHANGED <<prof, rows, chunks, sp, paths, cf, folded, pc, printed,
                   ctr, hist, last, source, csv_files, outer_vars, agg>>

\* the reader is exhausted: the chunk files are closed and the call returns
YearSeparated_close ==
    /\ run.pc = "rows"
    /\ run.pos = Len(source)
    /\ dir' = close_all(dir, run.opened_files)
    /\ run' = [run EXCEPT !.pc = "done"]
    /\ UNCHANGED <<prof, rows, chunks, sp, paths, cf, folded, pc, printed,
                   ctr, hist, last, source, csv_files, outer_vars, agg>>

NextYS ==
    \/ \E path \in SourceNames, file \in TextFiles :
          YearSeparated_init(path, file)
    \/ YearSeparated_row
    \/ YearSeparated_close

SpecYS == InitYS /\ [][NextYS]_vars

\* The same constructor over a parse_datetime that hands on what the
\* ciso8601 parser returns, which is the only way a chunk file gets opened.
YearSeparated_row_returning ==
    /\ run.pc = "rows"
    /\ run.pos < Len(source)
    /\ LET after == year_separated_step_using(TRUE,
                        [run EXCEPT !.pos = @ + 1], dir, source[run.pos + 1])
       IN /\ run' = after.run
          /\ dir' = after.dir
    /\ UNCHANGED <<prof, rows, chunks, sp, paths, cf, folded, pc, printed,
                   ctr, hist, last, source, csv_files, outer_vars, agg>>

NextYSReturning ==
    \/ \E path \in SourceNames, file \in TextFiles :
          YearSeparated_init(path, file)
    \/ YearSeparated_row_returning
    \/ YearSeparated_close

SpecYSReturning == InitYS /\ [][NextYSReturning]_vars

----------------------------------------------------------------------------
(* Claims about the partition of a CSV text *)

Occurrences(seq, x) == Cardinality({i \in 1..Len(seq) : seq[i] = x})

\* the rows under the header of the file with this name, <<>> without it
DataRowsOf(directory, name) ==
    IF Has(directory, name) /\ Get(directory, name).rows # <<>>
    THEN Tail(Get(directory, name).rows)
    ELSE <<>>

\* the call has ended, by returning or by raising
Ended == run.pc \in {"done", "raised"}

\* the source has a header with the timestamp column
HasDateColumn ==
    /\ source # <<>>
    /\ \E i \in 1..Len(source[1]) : source[1][i] = DatetimeColumnName

DateColumn ==
    CHOOSE i \in 1..Len(source[1]) :
        /\ source[1][i] = DatetimeColumnName
        /\ \A j \in 1..(i - 1) : source[1][j] # DatetimeColumnName

\* row i of the source is a data row with as many fields as the header
Kept(i) == i \in 2..Len(source) /\ Len(source[i]) = Len(source[1])

\* every kept row carries a well-formed timestamp
KeptRowsAreDated ==
    \A i \in 2..Len(source) :
        Kept(i) => source[i][DateColumn] \in DOMAIN TimestampYear

WrittenYear(i) == TimestampYear[source[i][DateColumn]]

\* C11: after YearSeparated has run on a source whose header has the
\* timestamp column and whose rows of the header's field count carry
\* well-formed timestamps, each such row is in the chunk of its year as
\* often as it is in the source and in no other chunk, and a row of another
\* field count is in no chunk.
C11_EveryKeptRowInItsYearChunk ==
    (Ended /\ HasDateColumn /\ KeptRowsAreDated) =>
        \A i \in 2..Len(source) :
            IF Kept(i)
            THEN LET own == _get_year_path(run.path, WrittenYear(i))
                 IN /\ Occurrences(DataRowsOf(dir, own), source[i]) =
                           Occurrences(Tail(source), source[i])
                    /\ \A e \in 1..Len(dir) :
                          dir[e].k # own =>
                            Occurrences(DataRowsOf(dir, dir[e].k),
                                        source[i]) = 0
            ELSE \A e \in 1..Len(dir) :
                    Occurrences(DataRowsOf(dir, dir[e].k), source[i]) = 0

\* the years written in the kept rows, in order of first occurrence
RECURSIVE FirstYears(_, _)
FirstYears(i, seen) ==
    IF i > Len(source) THEN seen
    ELSE IF Kept(i) /\ \A j \in 1..Len(seen) : seen[j] # WrittenYear(i)
    THEN FirstYears(i + 1, Append(seen, WrittenYear(i)))
    ELSE FirstYears(i + 1, seen)

\* a year as it is written in a file name
YearText == [y \in {2021, 2022} |->
               IF y = 2021 THEN <<"2", "0", "2", "1">>
               ELSE <<"2", "0", "2", "2">>]

\* name_Y.ext for a source name of one character, a dot and one character
ChunkName(name, y) == <<name[1], "_">> \o YearText[y] \o <<".", name[3]>>

\* the kept rows of year y, in the order of the source
RECURSIVE RowsOfYear(_, _)
RowsOfYear(i, y) ==
    IF i > Len(source) THEN <<>>
    ELSE IF Kept(i) /\ WrittenYear(i) = y
    THEN <<source[i]>> \o RowsOfYear(i + 1, y)
    ELSE RowsOfYear(i + 1, y)

\* C12: after YearSeparated has run on such a source, the directory holds
\* one file per year written in the kept rows and no other file, the file of
\* year Y of name.ext is name_Y.ext and holds the header followed by the kept
\* rows of Y in source order, and chunk_csv_paths lists these files once
\* each in order of first occurrence of their year.
C12_OneChunkPerYearInOrder ==
    (Ended /\ HasDateColumn /\ KeptRowsAreDated) =>
        LET years == FirstYears(2, <<>>)
        IN /\ Len(dir) = Len(years)
           /\ run.chunk_csv_paths =
                 [j \in 1..Len(years) |-> ChunkName(run.path, years[j])]
           /\ \A j \in 1..Len(years) :
                 /\ Has(dir, ChunkName(run.path, years[j]))
                 /\ Get(dir, ChunkName(run.path, years[j])).rows =
                       <<source[1]>> \o RowsOfYear(2, years[j])

\* C13: when the header of the source lacks the timestamp column, the call
\* raises ValueError on the header: it never reads past the first row, never
\* returns, creates no file in the directory and leaves chunk_csv_paths
\* empty.
C13_MissingDateColumnRaisesAtHeader ==
    (run.pc # "idle" /\ source # <<>> /\ ~HasDateColumn) =>
        /\ run.pos <= 1
        /\ run.pc # "done"
        /\ run.pos = 1 => (run.pc = "raised" /\ run.raised = "ValueError")
        /\ run.chunk_csv_paths = <<>>
        /\ dir = <<>>

\* such a call has raised with data rows left unread
C13_Witness ==
    /\ run.pc = "raised"
    /\ run.raised = "ValueError"
    /\ ~HasDateColumn
    /\ Len(source) > 1

\* the call on this file run to its end in an empty directory
RECURSIVE RunFrom(_, _, _)
RunFrom(r, directory, file) ==
    IF r.pc = "raised" THEN [run |-> r, dir |-> directory]
    ELSE IF r.pos = Len(file)
    THEN [run |-> [r EXCEPT !.pc = "done"],
          dir |-> close_all(directory, r.opened_files)]
    ELSE LET after == year_separated_step([r EXCEPT !.pos = @ + 1],
                                          directory, file[r.pos + 1])
         IN RunFrom(after.run, after.dir, file)

FreshRun(path, file) ==
    RunFrom([NoRun EXCEPT !.pc = "rows", !.path = path], <<>>, file)

\* C14: from the moment a call has emptied the directory, the files of the
\* directory are exactly the chunk files this call has written, whatever
\* the directory held before; and when the call has ended, the directory
\* and chunk_csv_paths are what the same call gives in an empty directory,
\* so that a second call on the same source reproduces them.
C14_DirectoryHoldsOnlyTheLastRun ==
    run.pc # "idle" =>
        /\ Keys(dir) = {run.chunk_csv_paths[j] :
                            j \in 1..Len(run.chunk_csv_paths)}
        /\ Ended =>
              /\ dir = FreshRun(run.path, source).dir
              /\ run.chunk_csv_paths =
                    FreshRun(run.path, source).run.chunk_csv_paths

\* a call has ended in a directory that held a file when the call began,
\* and the file is gone
C14_Witness ==
    /\ Ended
    /\ run.found # <<>>
    /\ \A e \in 1..Len(run.found) : ~Has(dir, run.found[e].k)

----------------------------------------------------------------------------
(* The statistics constructors on CSV text *)

\* the characters of the name texts, for `prof_name in vacancy.name`
NameText == [t \in {"SE", "C"} |-> IF t = "SE" THEN <<"S", "E">> ELSE <<"C">>]

\* texts that str.strip() turns into ''
BlankText == {"", " "}

\* files of blank lines only
BlankFiles == { << <<>> >>, << <<" ">> >>, << <<>>, <<"">> >> }

\* a _to_row_dict that drops a row only for an empty field and pairs the
\* fields of a row of another length as far as both go
to_row_dict_by_empty_field(title_row, row) ==
    IF \E i \in 1..Len(row) : row[i] = ""
    THEN [none |-> TRUE, dict |-> <<>>]
    ELSE [none |-> FALSE,
          dict |-> [i \in 1..(IF Len(row) < Len(title_row)
                              THEN Len(row) ELSE Len(title_row)) |->
                       [k |-> title_row[i], v |-> row[i]]]]

\* a _to_row_dict that drops a row only for its field count
to_row_dict_by_count(title_row, row) ==
    IF Len(title_row) # Len(row)
    THEN [none |-> TRUE, dict |-> <<>>]
    ELSE [none |-> FALSE,
          dict |-> [i \in 1..Len(row) |-> [k |-> title_row[i], v |-> row[i]]]]

\* _to_row_dict(title_row, row)
to_row_dict(title_row, row) ==
    IF Len(title_row) # Len(row) \/ \E i \in 1..Len(row) : row[i] = ""
    THEN [none |-> TRUE, dict |-> <<>>]
    ELSE [none |-> FALSE,
          dict |-> [i \in 1..Len(row) |-> [k |-> title_row[i], v |-> row[i]]]]

NoSalary == [from_amount |-> 0, to_amount |-> 0, currency |-> ""]

\* Salary.parse_from_dict(row_dict)
Salary_parse_from_dict(row_dict) ==
    IF ~Has(row_dict, "salary_currency")
    THEN [raised |-> "KeyError", salary |-> NoSalary]
    ELSE IF Get(row_dict, "salary_currency") \notin CurrencyText
    THEN [raised |-> "ValueError", salary |-> NoSalary]
    ELSE IF ~Has(row_dict, "salary_from")
    THEN [raised |-> "KeyError", salary |-> NoSalary]
    ELSE IF Get(row_dict, "salary_from") \notin DOMAIN NumberText
    THEN [raised |-> "ValueError", salary |-> NoSalary]
    ELSE IF ~Has(row_dict, "salary_to")
    THEN [raised |-> "KeyError", salary |-> NoSalary]
    ELSE IF Get(row_dict, "salary_to") \notin DOMAIN NumberText
    THEN [raised |-> "ValueError", salary |-> NoSalary]
    ELSE [raised |-> "",
          salary |-> [from_amount |-> NumberText[Get(row_dict, "salary_from")],
                      to_amount   |-> NumberText[Get(row_dict, "salary_to")],
                      currency    |-> Get(row_dict, "salary_currency")]]

NoVacancy == [name |-> <<>>, salary |-> NoSalary, area_name |-> "",
              published_at |-> None]

\* Vacancy.parse_from_dict(row_dict): the arguments are evaluated in the
\* order name, salary, area_name, published_at
Vacancy_parse_from_dict(row_dict) ==
    LET parsed_salary == Salary_parse_from_dict(row_dict)
    IN IF ~Has(row_dict, "name")
       THEN [raised |-> "KeyError", vacancy |-> NoVacancy]
       ELSE IF parsed_salary.raised # ""
       THEN [raised |-> parsed_salary.raised, vacancy |-> NoVacancy]
       ELSE IF ~Has(row_dict, "area_name") \/ ~Has(row_dict, "published_at")
       THEN [raised |-> "KeyError", vacancy |-> NoVacancy]
       ELSE LET parsed == parse_datetime(Get(row_dict, "published_at"))
            IN IF parsed.raised # ""
               THEN [raised |-> parsed.raised, vacancy |-> NoVacancy]
               ELSE [raised |-> "",
                     vacancy |-> [name |-> NameText[Get(row_dict, "name")],
                                  salary |-> parsed_salary.salary,
                                  area_name |-> Get(row_dict, "area_name"),
                                  published_at |-> parsed.value]]

\* _update_statistics(vacancy) on a parsed vacancy: vacancy.year is
\* published_at.year, an AttributeError when published_at is None
update_statistics_parsed(st, vacancy) ==
    IF vacancy.published_at.none
    THEN [raised |-> "AttributeError", st |-> st]
    ELSE [raised |-> "",
          st |-> update_statistics(st,
                    [name |-> vacancy.name, salary |-> vacancy.salary,
                     area_name |-> vacancy.area_name,
                     year |-> vacancy.published_at.year])]

\* the loop of _init_data over the rows under the title row
RECURSIVE init_data_rows(_, _, _)
init_data_rows(st, title_row, file_rows) ==
    IF file_rows = <<>> THEN [raised |-> "", st |-> st]
    ELSE LET row_dict == to_row_dict(title_row, Head(file_rows))
         IN IF row_dict.none
            THEN init_data_rows(st, title_row, Tail(file_rows))
            ELSE LET parsed == Vacancy_parse_from_dict(row_dict.dict)
                     updated == update_statistics_parsed(st, parsed.vacancy)
                 IN IF parsed.raised # ""
                    THEN [raised |-> parsed.raised, st |-> st]
                    ELSE IF updated.raised # ""
                    THEN updated
                    ELSE init_data_rows(updated.st, title_row,
                                        Tail(file_rows))

\* SingleProcessVacanciesStatistics(path, prof_name) on the text of the file
SingleProcess_new(prof_name, file) ==
    IF file = <<>> THEN [raised |-> "", st |-> SingleProcess_init(prof_name)]
    ELSE init_data_rows(SingleProcess_init(prof_name), file[1], Tail(file))

\* a _read_csv that also takes a file of nothing but a header for empty
read_csv_needing_rows(file) ==
    IF Len(file) <= 1
       \/ \A i \in 1..Len(file) :
             Len(file[i]) = 0 \/ (Len(file[i]) = 1 /\ file[i][1] \in BlankText)
    THEN [none |-> TRUE, list_naming |-> <<>>, rows |-> <<>>]
    ELSE [none |-> FALSE, list_naming |-> file[1], rows |-> Tail(file)]

\* DataSet._read_csv(file_name)
read_csv(file) ==
    IF Len(file) = 0
       \/ \A i \in 1..Len(file) :
             Len(file[i]) = 0 \/ (Len(file[i]) = 1 /\ file[i][1] \in BlankText)
    THEN [none |-> TRUE, list_naming |-> <<>>, rows |-> <<>>]
    ELSE [none |-> FALSE, list_naming |-> file[1], rows |-> Tail(file)]

\* DataSet._get_vacancy_objects over DataSet._get_row_dicts
RECURSIVE get_vacancy_objects(_, _, _)
get_vacancy_objects(objects, list_naming, file_rows) ==
    IF file_rows = <<>> THEN [raised |-> "", vacancy_objects |-> objects]
    ELSE LET row_dict == to_row_dict(list_naming, Head(file_rows))
             parsed == Vacancy_parse_from_dict(row_dict.dict)
         IN IF row_dict.none
            THEN get_vacancy_objects(objects, list_naming, Tail(file_rows))
            ELSE IF parsed.raised # ""
            THEN [raised |-> parsed.raised, vacancy_objects |-> objects]
            ELSE get_vacancy_objects(Append(objects, parsed.vacancy),
                                     list_naming, Tail(file_rows))

\* DataSet(file_name)
DataSet_new(file) ==
    LET read == read_csv(file)
    IN IF read.none
       THEN [raised |-> "EmptyFileException", vacancy_objects |-> <<>>]
       ELSE get_vacancy_objects(<<>>, read.list_naming, read.rows)

\* the files a constructor may be given
AnyTextFiles == TextFiles \cup BlankFiles

InitRows ==
    /\ prof \in ProfNames
    /\ rows = <<>>
    /\ chunks = <<>>
    /\ sp = SingleProcess_init(prof)
    /\ paths = <<>>
    /\ cf = Concurrent_init(prof)
    /\ folded = 0
    /\ pc = "idle"
    /\ printed = NoPrint
    /\ NoCounters
    /\ NoText
    /\ NoOuter

\* the call SingleProcessVacanciesStatistics(path, prof_name) on a file; a
\* call depends on nothing but its file, so a behaviour holds one call
SingleProcess_call(file) ==
    /\ agg.op = "none"
    /\ LET outcome == SingleProcess_new(prof, file)
       IN agg' = [op |-> "single", file |-> file, raised |-> outcome.raised,
                  returned |-> outcome.raised = "", st |-> outcome.st,
                  vacancy_objects |-> <<>>]
    /\ UNCHANGED <<prof, rows, chunks, sp, paths, cf, folded, pc, printed,
                   ctr, hist, last, source, dir, run, csv_files, outer_vars>>

\* the call DataSet(file_name) on a file
DataSet_call(file) ==
    /\ agg.op = "none"
    /\ LET outcome == DataSet_new(file)
       IN agg' = [op |-> "dataset", file |-> file, raised |-> outcome.raised,
                  returned |-> outcome.raised = "",
                  st |-> SingleProcess_init(<<>>),
                  vacancy_objects |-> outcome.vacancy_objects]
    /\ UNCHANGED <<prof, rows, chunks, sp, paths, cf, folded, pc, printed,
                   ctr, hist, last, source, dir, run, csv_files, outer_vars>>

NextRows ==
    \/ \E file \in AnyTextFiles : SingleProcess_call(file)
    \/ \E file \in AnyTextFiles : DataSet_call(file)

SpecRows == InitRows /\ [][NextRows]_vars

----------------------------------------------------------------------------
(* ConcurrentFuturesVacanciesStatics on a folder of CSV text files: every    *)
(* file is given to a worker process, and executor.map hands the results,   *)
(* or the exception of a worker, to the constructor in the order of         *)
(* chunk_paths.                                                             *)

\* a chunk file: empty, a header, or a header and one row
ChunkTextFiles ==
    {<<>>, <<TitleRow>>} \cup {<<TitleRow, row>> : row \in TextRows}

\* a loop body that leaves out the chunk of a worker that failed
fold_result_dropping(c, result) ==
    IF result.raised # "" THEN [raised |-> "", cf |-> c]
    ELSE [raised |-> "", cf |-> merge_chunk(c, result.st)]

\* the next result of executor.map: the exception of the worker is raised
\* again in the constructor, a returned chunk_stats is merged
fold_result(c, result) ==
    IF result.raised # "" THEN [raised |-> result.raised, cf |-> c]
    ELSE [raised |-> "", cf |-> merge_chunk(c, result.st)]

\* a worker process that has terminated abnormally
BrokenProcessPool ==
    [raised |-> "BrokenProcessPool", st |-> SingleProcess_init(<<>>)]

InitFolder ==
    /\ prof \in ProfNames
    /\ rows = <<>>
    /\ chunks = <<>>
    /\ sp = SingleProcess_init(prof)
    /\ paths = <<>>
    /\ cf = Concurrent_init(prof)
    /\ folded = 0
    /\ pc = "idle"
    /\ printed = NoPrint
    /\ NoCounters
    /\ source = <<>>
    /\ dir = <<>>
    /\ run = NoRun
    /\ csv_files \in UNION {[1..n -> ChunkTextFiles] : n \in 0..NumChunks}
    /\ agg = NoOutcome
    /\ NoOuter

\* ConcurrentFuturesVacanciesStatics(chunk_paths, prof_name), up to the pool:
\* chunk_paths lists the files of the folder in some order
Concurrent_call(chunk_paths) ==
    /\ pc = "idle"
    /\ paths' = chunk_paths
    /\ cf' = Concurrent_init(prof)
    /\ folded' = 0
    /\ pc' = "fold"
    /\ agg' = [NoOutcome EXCEPT !.op = "concurrent"]
    /\ UNCHANGED <<prof, rows, chunks, sp, printed, ctr, hist, last,
                   source, dir, run, csv_files, outer_vars>>

\* one pass of the loop over executor.map: the worker of the next chunk has
\* run SingleProcessVacanciesStatistics on its file, or has died
Concurrent_fold(died) ==
    /\ pc = "fold"
    /\ folded < Len(paths)
    /\ LET result == IF died THEN BrokenProcessPool
                     ELSE SingleProcess_new(prof, csv_files[paths[folded + 1]])
           after == fold_result(cf, result)
       IN IF after.raised # ""
          THEN /\ pc' = "raised"
               /\ agg' = [agg EXCEPT !.raised = after.raised]
               /\ UNCHANGED <<cf, folded>>
          ELSE /\ cf' = after.cf
               /\ folded' = folded + 1
               /\ UNCHANGED <<pc, agg>>
    /\ UNCHANGED <<prof, rows, chunks, sp, paths, printed, ctr, hist, last,
                   source, dir, run, csv_files, outer_vars>>

\* the end of the constructor: the object is returned
Concurrent_finish ==
    /\ pc = "fold"
    /\ folded = Len(paths)
    /\ cf' = init_city_salaries(init_counts_by_cities(cf))
    /\ pc' = "done"
    /\ agg' = [agg EXCEPT !.returned = TRUE]
    /\ UNCHANGED <<prof, rows, chunks, sp, paths, folded, printed, ctr, hist,
                   last, source, dir, run, csv_files, outer_vars>>

NextFolder ==
    \/ \E p \in Permutations_of(Len(csv_files)) : Concurrent_call(p)
    \/ \E died \in BOOLEAN : Concurrent_fold(died)
    \/ Concurrent_finish

SpecFolder == InitFolder /\ [][NextFolder]_vars

----------------------------------------------------------------------------
(* Claims about the statistics constructors on CSV text *)

\* the field of a row under the column of this name
FieldOf(title_row, row, name) ==
    row[CHOOSE i \in 1..Len(title_row) : title_row[i] = name]

\* the row has another field count than the header, or an empty field
Skipped(title_row, row) ==
    Len(row) # Len(title_row) \/ \E i \in 1..Len(row) : row[i] = ""

\* the row is complete but its salary is no number or its currency unknown
BadSalary(title_row, row) ==
    /\ ~Skipped(title_row, row)
    /\ \/ FieldOf(title_row, row, "salary_currency") \notin CurrencyText
       \/ FieldOf(title_row, row, "salary_from") \notin DOMAIN NumberText
       \/ FieldOf(title_row, row, "salary_to") \notin DOMAIN NumberText

RECURSIVE WithoutSkipped(_, _)
WithoutSkipped(title_row, file_rows) ==
    IF file_rows = <<>> THEN <<>>
    ELSE IF Skipped(title_row, Head(file_rows))
    THEN WithoutSkipped(title_row, Tail(file_rows))
    ELSE <<Head(file_rows)>> \o WithoutSkipped(title_row, Tail(file_rows))

\* the last call was SingleProcessVacanciesStatistics on a file with a header
SingleOnHeader == agg.op = "single" /\ agg.file # <<>>

\* C16 as stated: a call of SingleProcessVacanciesStatistics that returns has
\* read no row of a wrong field count, with an empty field, with an
\* unparsable number or with an unknown currency.
C16_EveryMalformedRowIsFatal ==
    (SingleOnHeader /\ agg.returned) =>
        \A i \in 2..Len(agg.file) :
            /\ ~Skipped(agg.file[1], agg.file[i])
            /\ ~BadSalary(agg.file[1], agg.file[i])

\* C16, amended: rows of a wrong field count or with an empty field are
\* skipped, the call ends as it does on the file without them and returns
\* when nothing else is in the file; the first remaining row with an
\* unparsable number or an unknown currency makes the call raise ValueError.
C16_SkippedOrFatal ==
    SingleOnHeader =>
        LET kept == WithoutSkipped(agg.file[1], Tail(agg.file))
            alone == SingleProcess_new(prof, <<agg.file[1]>> \o kept)
        IN /\ agg.raised = alone.raised
           /\ agg.st = alone.st
           /\ kept = <<>> => agg.returned
           /\ (kept # <<>> /\ BadSalary(agg.file[1], kept[1])) =>
                 (agg.raised = "ValueError" /\ ~agg.returned)

\* a call has skipped a row with an empty field and then raised ValueError
\* on a row with an unknown currency
C16_Witness ==
    /\ SingleOnHeader
    /\ Len(agg.file) = 3
    /\ Len(agg.file[2]) = Len(agg.file[1])
    /\ Skipped(agg.file[1], agg.file[2])
    /\ Len(agg.file[3]) = Len(agg.file[1])
    /\ FieldOf(agg.file[1], agg.file[3], "salary_currency") = "XYZ"
    /\ agg.raised = "ValueError"

\* a row csv.reader yields for a blank line
IsBlankRow(row) == row = <<>> \/ (Len(row) = 1 /\ row[1] \in BlankText)

\* the file has no row under its first one
ZeroDataRows == agg.op \in {"single", "dataset"} /\ Len(agg.file) <= 1

\* C17 as stated: a constructor given a file with zero data rows raises and
\* returns no object.
C17_ZeroDataRowsRaise ==
    ZeroDataRows => (agg.raised # "" /\ ~agg.returned)

\* C17, amended: SingleProcessVacanciesStatistics raises nothing on a file
\* with zero data rows and returns statistics with no vacancy, empty year
\* maps and {current_year: 0} for the profession maps; DataSet raises
\* EmptyFileException exactly when the file has no row or only blank rows,
\* and on a header with no rows under it returns with no vacancy objects.
C17_ZeroDataRowsOutcome ==
    /\ (ZeroDataRows /\ agg.op = "single") =>
          /\ agg.returned /\ agg.raised = ""
          /\ agg.st.vacancies_count = 0
          /\ Single_salaries_by_year(agg.st) = <<>>
          /\ Single_counts_by_year(agg.st) = <<>>
          /\ Single_prof_salaries_by_year(agg.st) = ZeroThisYear
          /\ Single_prof_counts_by_year(agg.st) = ZeroThisYear
    /\ agg.op = "dataset" =>
          /\ agg.raised = "EmptyFileException" <=>
                \A i \in 1..Len(agg.file) : IsBlankRow(agg.file[i])
          /\ (Len(agg.file) = 1 /\ ~IsBlankRow(agg.file[1])) =>
                (agg.returned /\ agg.vacancy_objects = <<>>)

\* DataSet has returned from a file that holds a header and nothing else
C17_Witness ==
    /\ agg.op = "dataset"
    /\ agg.file = <<TitleRow>>
    /\ agg.returned

\* the aggregation of the k-th chunk of chunk_paths raises in its worker
ChunkFails(k) == SingleProcess_new(prof, csv_files[paths[k]]).raised # ""

\* C15: the constructor of ConcurrentFuturesVacanciesStatics returns an
\* object only when no worker has failed: while it folds, every chunk folded
\* so far was aggregated without an exception; when it has returned, every
\* chunk of chunk_paths was, and nothing was raised; and when a worker has
\* failed, by an exception or by dying, the constructor has raised and has
\* returned nothing.
C15_WorkerFailureFailsTheRun ==
    /\ pc \in {"fold", "done"} =>
          /\ agg.raised = ""
          /\ \A k \in 1..folded : ~ChunkFails(k)
    /\ pc = "done" => (agg.returned /\ folded = Len(paths))
    /\ agg.raised # "" => (pc = "raised" /\ ~agg.returned)
    /\ pc = "raised" =>
          (agg.raised = "BrokenProcessPool" \/ ChunkFails(folded + 1))

\* the constructor has raised on the exception of a worker after it had
\* merged the result of another chunk
C15_Witness ==
    /\ pc = "raised"
    /\ folded >= 1
    /\ agg.raised # "BrokenProcessPool"
    /\ ChunkFails(folded + 1)

----------------------------------------------------------------------------
(* Claims about the merged report of the chunk files *)

\* the constructor's loop over the chunk files in this order, from chunk k
RECURSIVE FoldFrom(_, _, _)
FoldFrom(c, order, k) ==
    IF k > Len(order) THEN c
    ELSE FoldFrom(merge_chunk(c, handle_one_chunk(prof, chunks[order[k]])),
                  order, k + 1)

\* the object ConcurrentFuturesVacanciesStatics builds for chunk_paths
ConcurrentOf(order) ==
    init_city_salaries(init_counts_by_cities(
        FoldFrom(Concurrent_init(prof), order, 1)))

----------------------------------------------------------------------------
(* PandasVacanciesStatistics: the same report from grouped aggregation over *)
(* a table.  The table is taken as the two pipes of the constructor deliver *)
(* it: one row per record, with the year of published_at and the salary in  *)
(* rubles (here half rubles).                                               *)

pandas_table(file_rows) ==
    [i \in DOMAIN file_rows |->
        [name |-> file_rows[i].name,
         salary |-> avg_ruble_amount(file_rows[i].salary),
         area_name |-> file_rows[i].area_name,
         year |-> file_rows[i].year]]

\* df.groupby(column): the rows of each value of the column
RECURSIVE groupby(_, _)
groupby(table, column) ==
    IF table = <<>> THEN <<>>
    ELSE LET before == groupby(SubSeq(table, 1, Len(table) - 1), column)
             row == table[Len(table)]
         IN IF Has(before, row[column])
            THEN Put(before, row[column], Append(Get(before, row[column]), row))
            ELSE Put(before, row[column], <<row>>)

RECURSIVE salary_sum(_)
salary_sum(table) ==
    IF table = <<>> THEN 0 ELSE Head(table).salary + salary_sum(Tail(table))

\* ['salary'].mean().astype(int) of each group
mean_astype_int(groups) ==
    [i \in DOMAIN groups |->
        [k |-> groups[i].k,
         v |-> IntValue(AvgCounterOf(salary_sum(groups[i].v),
                                     Len(groups[i].v)))]]

\* .size() of each group
size(groups) ==
    [i \in DOMAIN groups |-> [k |-> groups[i].k, v |-> Len(groups[i].v)]]

\* df[df['name'].str.contains(prof_name, case=True)]
name_contains(table, prof_name) ==
    LET Test(row) == IsSubstring(prof_name, row.name)
    IN SelectSeq(table, Test)

\* df[df.groupby('area_name')['area_name'].transform('size') >= count / 100]
true_cities(table) ==
    LET sizes == size(groupby(table, "area_name"))
        Test(row) == 100 * Get(sizes, row.area_name) >= Len(table)
    IN SelectSeq(table, Test)

\* .sort_values(ascending=False): the entries by falling value; the order
\* among equal values is whatever the sort makes of it
sort_values(series) ==
    {[i \in DOMAIN series |-> series[p[i]]] : p \in
        {q \in Permutations_of(Len(series)) :
            \A i, j \in DOMAIN series :
                i < j => series[q[i]].v >= series[q[j]].v}}

\* .apply(lambda x: x / self._vacancies_count), as a fraction in lowest terms
shares_of(series, count) ==
    [i \in DOMAIN series |-> [k |-> series[i].k, v |-> Ratio(series[i].v, count)]]

\* PandasVacanciesStatistics(path, prof_name, rates) on the table, with the
\* orders the two sort_values calls have produced
Pandas_new(prof_name, table, sorted_salaries, sorted_sizes) ==
    [prof_name |-> prof_name,
     vacancies_count |-> Len(table),
     salaries_by_year |-> mean_astype_int(groupby(table, "year")),
     counts_by_year |-> size(groupby(table, "year")),
     prof_salaries_by_year |->
         mean_astype_int(groupby(name_contains(table, prof_name), "year")),
     prof_counts_by_year |->
         size(groupby(name_contains(table, prof_name), "year")),
     top_10_salaries_by_cities |-> Take(sorted_salaries, Top10),
     top_10_cities_shares |-> Take(shares_of(sorted_sizes, Len(table)), Top10)]

\* the call PandasVacanciesStatistics(path, prof_name, rates) on the source
\* read so far, which holds at least one row
Pandas_call ==
    /\ pc = "read"
    /\ rows # <<>>
    /\ LET table == pandas_table(rows)
           df_true_group == groupby(true_cities(table), "area_name")
       IN \E sorted_salaries \in sort_values(mean_astype_int(df_true_group)),
             sorted_sizes \in sort_values(size(df_true_group)) :
             agg' = [NoOutcome EXCEPT
                       !.op = "pandas", !.returned = TRUE,
                       !.st = Pandas_new(prof, table, sorted_salaries,
                                         sorted_sizes)]
    /\ pc' = "done"
    /\ UNCHANGED <<prof, rows, chunks, sp, paths, cf, folded, printed,
                   ctr, hist, last, source, dir, run, csv_files, outer_vars>>

NextPandas ==
    \/ \E row \in Vacancies : ReadRow(row)
    \/ Pandas_call

SpecPandas == Init /\ [][NextPandas]_vars

\* C19: the six fields of PandasVacanciesStatistics are those of
\* SingleProcessVacanciesStatistics on the same rows: the same year maps, the
\* same profession maps with {current_year: 0} when no title matches, the
\* same top-10 cities in the same order with the same integer salaries, and
\* shares that are the single-process shares rounded to 4 decimals.
C19_PandasEqualsSinglePass ==
    agg.op = "pandas" =>
        /\ SameDict(agg.st.salaries_by_year, Single_salaries_by_year(sp))
        /\ SameDict(agg.st.counts_by_year, Single_counts_by_year(sp))
        /\ SameDict(agg.st.prof_salaries_by_year,
                    Single_prof_salaries_by_year(sp))
        /\ SameDict(agg.st.prof_counts_by_year, Single_prof_counts_by_year(sp))
        /\ agg.st.top_10_salaries_by_cities
              = Single_top_10_salaries_by_cities(sp)
        /\ LET shares == agg.st.top_10_cities_shares
               single == Single_top_10_cities_shares(sp)
           IN /\ Len(shares) = Len(single)
              /\ \A i \in DOMAIN shares :
                    /\ shares[i].k = single[i].k
                    /\ 10000 * shares[i].v[1] = single[i].v * shares[i].v[2]

----------------------------------------------------------------------------
(* A source of three records: two engineers of 2020 in one city and a cook  *)
(* of 2021 in another.                                                      *)

Engineer == <<"E", "n", "g", "i", "n", "e", "e", "r">>

ScenarioVacancies ==
    { [name |-> Engineer,
       salary |-> [from_amount |-> 100, to_amount |-> 200, currency |-> "RUR"],
       area_name |-> "A", year |-> 2020],
      [name |-> <<"S", "e", "n", "i", "o", "r", " ">> \o Engineer,
       salary |-> [from_amount |-> 300, to_amount |-> 300, currency |-> "RUR"],
       area_name |-> "A", year |-> 2020],
      [name |-> <<"C", "o", "o", "k">>,
       salary |-> [from_amount |-> 50, to_amount |-> 50, currency |-> "RUR"],
       area_name |-> "B", year |-> 2021] }

InitScenario ==
    /\ prof = Engineer
    /\ rows = <<>>
    /\ chunks = <<>>
    /\ sp = SingleProcess_init(prof)
    /\ paths = <<>>
    /\ cf = Concurrent_init(prof)
    /\ folded = 0
    /\ pc = "read"
    /\ printed = NoPrint
    /\ NoCounters
    /\ NoText

NextScenario ==
    \/ \E row \in ScenarioVacancies : ReadRow(row)
    \/ from_year_separated
    \/ FoldChunk
    \/ Finish

SpecScenario == InitScenario /\ [][NextScenario]_vars

\* the source holds each of the three records once, in any order
ScenarioRead ==
    /\ Len(rows) = 3
    /\ {rows[i] : i \in DOMAIN rows} = ScenarioVacancies

\* the chunk files are one of two rows of 2020 and one of one row of 2021
TwoYearChunks ==
    /\ Len(chunks) = 2
    /\ \E a, b \in 1..2 :
          /\ a # b
          /\ Len(chunks[a]) = 2 /\ \A i \in 1..2 : chunks[a][i].year = 2020
          /\ Len(chunks[b]) = 1 /\ chunks[b][1].year = 2021

\* the year maps and profession maps of the three records, with this mean
\* for 2020
ScenarioMaps(mean_2020) ==
    /\ SameDict(Single_salaries_by_year(sp),
                <<[k |-> 2020, v |-> mean_2020], [k |-> 2021, v |-> 50]>>)
    /\ SameDict(Single_counts_by_year(sp),
                <<[k |-> 2020, v |-> 2], [k |-> 2021, v |-> 1]>>)
    /\ SameDict(Single_prof_salaries_by_year(sp),
                <<[k |-> 2020, v |-> mean_2020]>>)
    /\ SameDict(Single_prof_counts_by_year(sp), <<[k |-> 2020, v |-> 2]>>)
    /\ Keys(Single_top_10_salaries_by_cities(sp)) = {"A", "B"}
    /\ Keys(Single_top_10_cities_shares(sp)) = {"A", "B"}

----------------------------------------------------------------------------
(* The single pass over vacancies whose salary may be negative: Salary      *)
(* takes any integers, and titles differ in case.                           *)

SignedVacancies ==
    [name : {<<"S", "E">>, <<"s", "e">>},
     salary : {[from_amount |-> -3, to_amount |-> 0, currency |-> "RUR"],
               [from_amount |-> 100, to_amount |-> 201, currency |-> "RUR"]},
     area_name : Cities,
     year : Years]

NextSigned == \E row \in SignedVacancies : ReadRow(row)

SpecSigned == Init /\ [][NextSigned]_vars

\* the rows of a city: how many, and their amounts in half rubles
RowsOfCity(city) == {i \in DOMAIN rows : rows[i].area_name = city}

RECURSIVE AmountOfCity(_, _)
AmountOfCity(file_rows, city) ==
    IF file_rows = <<>> THEN 0
    ELSE (IF Head(file_rows).area_name = city
          THEN avg_ruble_amount(Head(file_rows).salary) ELSE 0)
         + AmountOfCity(Tail(file_rows), city)

FloorOf(n, d) == n \div d

\* the mean n / d rounded down, or rounded toward zero as int() rounds
Rounded(floored, n, d) == IF floored THEN FloorOf(n, d) ELSE TruncDiv(n, d)

\* the year maps and the profession maps hold the years present and the
\* years with a match, each with its count of rows and this rounding of
\* their mean; every row is in its city's accumulator and in the total
FoldedMaps(floored) ==
    /\ Keys(sp.counts_by_year) = YearsPresent
    /\ Keys(Single_salaries_by_year(sp)) = YearsPresent
    /\ \A y \in YearsPresent :
          /\ Get(sp.counts_by_year, y) = CountOfRows(y, FALSE)
          /\ Get(Single_salaries_by_year(sp), y) =
                Rounded(floored, AmountOfRows(rows, y, FALSE), 2 * CountOfRows(y, FALSE))
    /\ Keys(sp.prof_counts_by_year) = MatchingYears
    /\ Keys(sp.prof_salaries_by_year) = MatchingYears
    /\ \A y \in MatchingYears :
          /\ Get(sp.prof_counts_by_year, y) = CountOfRows(y, TRUE)
          /\ Get(Single_prof_salaries_by_year(sp), y) =
                Rounded(floored, AmountOfRows(rows, y, TRUE), 2 * CountOfRows(y, TRUE))
    /\ Keys(sp.salaries_by_cities) = {rows[i].area_name : i \in DOMAIN rows}
    /\ \A i \in DOMAIN rows :
          LET city == rows[i].area_name
          IN  /\ Get(sp.salaries_by_cities, city).len =
                    Cardinality(RowsOfCity(city))
              /\ Get(sp.salaries_by_cities, city).sum = AmountOfCity(rows, city)
              /\ Get(sp.counts_by_cities, city) = Cardinality(RowsOfCity(city))
    /\ sp.vacancies_count = Len(rows)


----------------------------------------------------------------------------
(* Counting invariants of the single pass and of the merge *)

\* the sum of the values of a dict of counts
RECURSIVE TotalOf(_)
TotalOf(d) == IF d = <<>> THEN 0 ELSE Head(d).v + TotalOf(Tail(d))

\* the salary map has the keys of the count map, each accumulator as long
\* as the count
LensAreCounts(salaries, counts) ==
    /\ Keys(salaries) = Keys(counts)
    /\ \A key \in Keys(counts) : Get(salaries, key).len = Get(counts, key)

\* the rows of the chunks merged so far
RECURSIVE FoldedRows(_)
FoldedRows(k) ==
    IF k = 0 THEN 0 ELSE Len(chunks[paths[k]]) + FoldedRows(k - 1)

\* C26: in every state of the single pass vacancies_count is the sum of
\* counts_by_year and the sum of the per-city counts, every salary map has
\* the keys of its count map with accumulators as long as the counts, and a
\* year's profession count is at most the year's count; after each chunk
\* merged, the merged vacancies_count is the sum of the city accumulators'
\* len and the number of rows of the chunks merged so far.
C26_CountingInvariants ==
    /\ sp.vacancies_count = TotalOf(sp.counts_by_year)
    /\ sp.vacancies_count = TotalOf(sp.counts_by_cities)
    /\ LensAreCounts(sp.salaries_by_year, sp.counts_by_year)
    /\ LensAreCounts(sp.salaries_by_cities, sp.counts_by_cities)
    /\ LensAreCounts(sp.prof_salaries_by_year, sp.prof_counts_by_year)
    /\ \A y \in Keys(sp.prof_counts_by_year) :
          /\ Has(sp.counts_by_year, y)
          /\ Get(sp.prof_counts_by_year, y) <= Get(sp.counts_by_year, y)
    /\ pc \in {"fold", "done"} =>
          /\ cf.vacancies_count = TotalOf(CityLens(cf))
          /\ cf.vacancies_count = FoldedRows(folded)

\* two chunks that share a city were merged, of a source with a row that
\* matches prof_name and one that does not
C26_Witness ==
    /\ pc = "done"
    /\ folded = 2
    /\ Len(chunks) = 2
    /\ \A k \in 1..2 : chunks[k] # <<>>
    /\ chunks[1][1].area_name = chunks[2][1].area_name
    /\ \E i \in DOMAIN rows : Matches(rows[i])
    /\ \E i \in DOMAIN rows : ~Matches(rows[i])

----------------------------------------------------------------------------
(* The year maps of a source without records *)

\* C27: for a source without records salaries_by_year and counts_by_year
\* are empty maps in the single pass and in the merge of its chunks, so the
\* two agree; only the profession maps are the current year -> 0.
C27_YearMapsOfEmptyCorpusAreEmpty ==
    (rows = <<>> /\ pc = "done") =>
        /\ Single_salaries_by_year(sp) = <<>>
        /\ Single_counts_by_year(sp) = <<>>
        /\ Concurrent_salaries_by_year(cf) = Single_salaries_by_year(sp)
        /\ Concurrent_counts_by_year(cf) = Single_counts_by_year(sp)
        /\ Single_prof_salaries_by_year(sp) = ZeroThisYear
        /\ Concurrent_prof_salaries_by_year(cf) = ZeroThisYear

----------------------------------------------------------------------------
(* Report.generate_excel: the sheet of the year maps *)

\* ReportColumn.keys: a dict's keys view, which compares as a set
ReportColumn_keys(values_dict) == Keys(values_dict)

\* check_all_equal: groupby puts equal neighbours into one group, and the
\* exception is raised when there is a second group
check_all_equal(iterable) ==
    IF \E i \in 1..(Len(iterable) - 1) : iterable[i] # iterable[i + 1]
    THEN "Exception" ELSE ""

\* ReportSheet.__init__: what it raises
ReportSheet_init(report_columns, separated) ==
    IF ~separated
    THEN check_all_equal([i \in DOMAIN report_columns |->
                             ReportColumn_keys(report_columns[i])])
    ELSE ""

\* the year sheet of generate_excel for these four maps: what it raises
generate_excel_year_sheet(salaries_by_year, prof_salaries_by_year, counts_by_year, prof_counts_by_year) ==
    ReportSheet_init(<<salaries_by_year, prof_salaries_by_year,
                       counts_by_year, prof_counts_by_year>>, FALSE)

\* C25: the four year maps of every statistics object have the same keys,
\* so the year sheet of generate_excel never raises, for the single pass
\* after any rows and for the merge of the chunks (stated here for sources
\* that hold at least one row).
C25_YearSheetNeverRaises ==
    rows # <<>> =>
    /\ generate_excel_year_sheet(
           Single_salaries_by_year(sp), Single_prof_salaries_by_year(sp),
           Single_counts_by_year(sp), Single_prof_counts_by_year(sp)) = ""
    /\ pc = "done" =>
          generate_excel_year_sheet(
              Concurrent_salaries_by_year(cf), Concurrent_prof_salaries_by_year(cf),
              Concurrent_counts_by_year(cf), Concurrent_prof_counts_by_year(cf)) = ""

----------------------------------------------------------------------------
(* parse_datetime as the constructors use it *)

\* C24: parse_datetime returns a timestamp for every well-formed text, so
\* every vacancy that DataSet builds has a published_at whose year is the
\* one written in a row of the file, and no statistics constructor fails
\* for want of a year.
C24_ParsedTimestampHasItsYear ==
    /\ \A i \in DOMAIN agg.vacancy_objects :
          /\ ~agg.vacancy_objects[i].published_at.none
          /\ \E j \in 2..Len(agg.file) :
                /\ ~Skipped(agg.file[1], agg.file[j])
                /\ FieldOf(agg.file[1], agg.file[j], "published_at")
                       \in DOMAIN TimestampYear
                /\ agg.vacancy_objects[i].published_at.year =
                       TimestampYear[FieldOf(agg.file[1], agg.file[j],
                                             "published_at")]
    /\ agg.raised # "AttributeError"

----------------------------------------------------------------------------
(* The chunk files at the end of a YearSeparated call *)

----------------------------------------------------------------------------
(* _to_row_dict on the rows of a file *)

\* the data rows of the file for which _to_row_dict returns a dict
DictRows == {j \in 2..Len(agg.file) : ~to_row_dict(agg.file[1], agg.file[j]).none}

\* C22: _to_row_dict returns None exactly for a row of another field count
\* than the header or with an empty field, and otherwise the dict of
\* header[i] -> row[i]; a row it returns None for is in no statistic and not
\* in vacancies_count: a file of such rows alone gives the statistics of a
\* file without rows.
C22_NoneExactlyForSkippedRows ==
    SingleOnHeader =>
        /\ \A j \in 2..Len(agg.file) :
              LET title_row == agg.file[1]
                  row == agg.file[j]
                  row_dict == to_row_dict(title_row, row)
              IN  /\ row_dict.none <=> Skipped(title_row, row)
                  /\ ~row_dict.none =>
                        /\ Keys(row_dict.dict) =
                               {title_row[i] : i \in 1..Len(title_row)}
                        /\ \A i \in 1..Len(row) :
                               Get(row_dict.dict, title_row[i]) = row[i]
        /\ agg.st.vacancies_count <= Cardinality(DictRows)
        /\ DictRows = {} =>
              /\ agg.returned
              /\ agg.st = SingleProcess_init(prof)

\* a call has returned on a file of one row that is too short and one row
\* with an empty field
C22_Witness ==
    /\ SingleOnHeader
    /\ agg.returned
    /\ Len(agg.file) = 3
    /\ \E j, k \in 2..3 :
          /\ Len(agg.file[j]) # Len(agg.file[1])
          /\ Len(agg.file[k]) = Len(agg.file[1])
          /\ \E i \in 1..Len(agg.file[k]) : agg.file[k][i] = ""

----------------------------------------------------------------------------
(* CurrencyRates.from_api: one _get_day_rates task per month step runs in   *)
(* a thread pool and writes its series into a shared dict.  A date is       *)
(* <<month, day>>, months counted from the first one of the model.          *)

Dates == (0..MaxMonths) \X {1, 15}

\* a < b for two dates
Earlier(a, b) == a[1] < b[1] \/ (a[1] = b[1] /\ a[2] < b[2])

\* date + relativedelta(months=1)
NextMonth(date) == <<date[1] + 1, date[2]>>

\* get_days(min_date, max_date), as the list executor.map draws from it
RECURSIVE get_days(_, _)
get_days(current_date, max_date) ==
    IF Earlier(current_date, max_date)
    THEN <<current_date>> \o get_days(NextMonth(current_date), max_date)
    ELSE <<>>

\* the HTTP status codes of the model
StatusCodes == {200, 500}

\* _get_day_rates(date, currencies, result_dict) on a response with this
\* status: the exception it raises and the dict after it
get_day_rates(date, status_code, result_dict) ==
    IF status_code # 200
    THEN [raised |-> "Exception", result |-> result_dict]
    ELSE [raised |-> "", result |-> Put(result_dict, date, "series")]

\* DataFrame.sort_index() on the keys of the result: insertion sort
RECURSIVE sort_index(_, _)
sort_index(done, keys) ==
    IF keys = <<>> THEN done
    ELSE LET key == Head(keys)
             before == SelectSeq(done, LAMBDA d : Earlier(d, key))
             after == SelectSeq(done, LAMBDA d : ~Earlier(d, key))
         IN sort_index(before \o <<key>> \o after, Tail(keys))

\* from_api(currencies, min_date, max_date), up to the pool: executor.map
\* submits one task for every date of get_days
from_api_call(min_date, max_date) ==
    /\ fetch.pc = "idle"
    /\ LET days == get_days(min_date, max_date)
       IN fetch' = [pc |-> "pool",
                    days |-> days,
                    tasks |-> [i \in DOMAIN days |-> "pending"],
                    result |-> <<>>,
                    table |-> <<>>,
                    raised |-> ""]
    /\ UNCHANGED <<prof, rows, chunks, sp, paths, cf, folded, pc, printed,
                   ctr, hist, last, source, dir, run, csv_files, agg, cli, api>>

\* a pool thread runs the task of one date, in any order; what the task
\* raises is kept in its future, which nothing reads
get_day_rates_task(i, status_code) ==
    /\ fetch.pc = "pool"
    /\ i \in DOMAIN fetch.tasks
    /\ fetch.tasks[i] = "pending"
    /\ LET ran == get_day_rates(fetch.days[i], status_code, fetch.result)
       IN fetch' = [fetch EXCEPT
                       !.tasks[i] = IF ran.raised # "" THEN "raised" ELSE "done",
                       !.result = ran.result]
    /\ UNCHANGED <<prof, rows, chunks, sp, paths, cf, folded, pc, printed,
                   ctr, hist, last, source, dir, run, csv_files, agg, cli, api>>

\* the `with` block ends when every task has ended; the table is built
\* from the result and returned
from_api_return ==
    /\ fetch.pc = "pool"
    /\ \A i \in DOMAIN fetch.tasks : fetch.tasks[i] # "pending"
    /\ fetch' = [fetch EXCEPT
                    !.pc = "returned",
                    !.table = sort_index(<<>>, [i \in DOMAIN fetch.result |->
                                                   fetch.result[i].k])]
    /\ UNCHANGED <<prof, rows, chunks, sp, paths, cf, folded, pc, printed,
                   ctr, hist, last, source, dir, run, csv_files, agg, cli, api>>

InitRates ==
    /\ NoPipeline
    /\ NoCounters
    /\ NoText

NextRates ==
    \/ \E min_date, max_date \in Dates : from_api_call(min_date, max_date)
    \/ \E i \in 1..(MaxMonths + 1), status_code \in StatusCodes :
          get_day_rates_task(i, status_code)
    \/ from_api_return

SpecRates == InitRates /\ [][NextRates]_vars

\* C30: from_api does not return when a task has raised; the table it
\* returns has one row for every month step from min_date up to, but not
\* including, max_date.
C30_FailedFetchIsSurfaced ==
    fetch.pc = "returned" =>
        /\ \A i \in DOMAIN fetch.tasks : fetch.tasks[i] # "raised"
        /\ fetch.table = fetch.days

----------------------------------------------------------------------------
(* HhApiWorker.load_vacancies_to_csv: passes of up to 2000 vacancies, each  *)
(* pass a run of page requests.  Instants are seconds from 2022-01-10       *)
(* 00:00 +0300, a Monday; the API is free in what it answers.               *)

Day == 86400

\* the instant a well-formed published_at text names
InstantOf ==
    [t \in DOMAIN TimestampYear |->
        IF t = "2022-01-10T09:00:00+0300" THEN 9 * 3600
        ELSE 20 * 3600 + 45 * 60 + 58 - 189 * Day]

\* the dates of a call: Monday the 10th, Saturday the 15th, Sunday the 16th
CallDates == {[day |-> 0, weekday |-> 0], [day |-> 5, weekday |-> 5],
              [day |-> 6, weekday |-> 6]}

\* float('inf')
Infinity == 1000000

NoRow == [none |-> TRUE, total_count |-> 0, id |-> 0, published_at |-> ""]

\* what the API may answer to one page request
Responses ==
    [status : {200},
     captcha : {FALSE},
     pages : 0..MaxPages,
     found : {1, 2001},
     items : {<<>>} \cup {<<[id |-> v_id, published_at |-> t]>> :
                             v_id \in {1, 2},
                             t \in DOMAIN TimestampYear \cup {"yesterday"}}]
    \cup [status : {403}, captcha : BOOLEAN, pages : {0}, found : {0},
          items : {<<>>}]
    \cup [status : {500}, captcha : {FALSE}, pages : {0}, found : {0},
          items : {<<>>}]

\* lines 21-32: the day's start, moved to Friday for a weekend day
load_vacancies_to_csv(date, swap_to_workday) ==
    /\ api.pc = "idle"
    /\ LET shift == IF ~swap_to_workday THEN 0
                    ELSE IF date.weekday = 5 THEN 1
                    ELSE IF date.weekday = 6 THEN 2 ELSE 0
           start_date == (date.day - shift) * Day
       IN api' = [pc |-> "while",
                  start_date |-> start_date,
                  end_date |-> start_date + Day,
                  before_pass |-> start_date + Day,
                  found |-> Infinity,
                  rows |-> <<>>,
                  last_row |-> NoRow,
                  page |-> 0,
                  page_count |-> 0,
                  passes |-> 0,
                  raised |-> "",
                  csv |-> <<>>]
    /\ UNCHANGED <<prof, rows, chunks, sp, paths, cf, folded, pc, printed,
                   ctr, hist, last, source, dir, run, csv_files, agg, cli, fetch>>

\* `while found > 2000`: another pass, or the CSV is written (lines 50-54)
while_found ==
    /\ api.pc = "while"
    /\ api' = IF api.found > 2000
              THEN [api EXCEPT !.pc = "iterate", !.last_row = NoRow,
                               !.page = 0, !.page_count = 20,
                               !.before_pass = api.end_date]
              ELSE [api EXCEPT !.pc = "written", !.csv = api.rows]
    /\ UNCHANGED <<prof, rows, chunks, sp, paths, cf, folded, pc, printed,
                   ctr, hist, last, source, dir, run, csv_files, agg, cli, fetch>>

\* the rows of one page go into rows by id; the last one is kept
RECURSIVE take_items(_, _, _)
take_items(a, found, items) ==
    IF items = <<>> THEN a
    ELSE LET row == [none |-> FALSE, total_count |-> found,
                     id |-> Head(items).id,
                     published_at |-> Head(items).published_at]
         IN take_items([a EXCEPT !.rows = Put(@, row.id, row.published_at),
                                 !.last_row = row],
                       found, Tail(items))

\* one turn of `while page < page_count` in _iterate_vacancies, with the
\* rows it yields taken by the loop of line 36
iterate_vacancies(resp) ==
    /\ api.pc = "iterate"
    /\ api.page < api.page_count
    /\ api' = IF resp.status = 403 /\ resp.captcha
              THEN [api EXCEPT !.pc = "captcha"]
              ELSE IF resp.status # 200
              THEN [api EXCEPT !.pc = "raised", !.raised = "HTTPError"]
              ELSE take_items([api EXCEPT !.page_count = resp.pages,
                                          !.page = @ + 1],
                              resp.found, resp.items)
    /\ UNCHANGED <<prof, rows, chunks, sp, paths, cf, folded, pc, printed,
                   ctr, hist, last, source, dir, run, csv_files, agg, cli, fetch>>

\* lines 39-40 with the parser chosen: found and end_date after the pass
end_of_pass_using(returning, a) ==
    IF a.last_row.none
    THEN [a EXCEPT !.pc = "raised", !.raised = "AttributeError"]
    ELSE LET parsed == parse_with(returning, a.last_row.published_at)
             counted == [a EXCEPT !.found = a.last_row.total_count,
                                  !.passes = 1]
         IN IF parsed.raised # ""
            THEN [counted EXCEPT !.pc = "raised", !.raised = parsed.raised]
            ELSE IF parsed.value.none
            THEN [counted EXCEPT !.pc = "raised", !.raised = "TypeError"]
            ELSE [counted EXCEPT
                     !.pc = "while",
                     !.end_date = InstantOf[a.last_row.published_at] + 1]

\* the generator is exhausted: lines 39-40 as the code has them
end_of_pass ==
    /\ api.pc = "iterate"
    /\ api.page >= api.page_count
    /\ api' = end_of_pass_using(FALSE, api)
    /\ UNCHANGED <<prof, rows, chunks, sp, paths, cf, folded, pc, printed,
                   ctr, hist, last, source, dir, run, csv_files, agg, cli, fetch>>

InitApi ==
    /\ NoPipeline
    /\ NoCounters
    /\ NoText

NextApi ==
    \/ \E date \in CallDates, swap_to_workday \in BOOLEAN :
          load_vacancies_to_csv(date, swap_to_workday)
    \/ while_found
    \/ \E resp \in Responses : iterate_vacancies(resp)
    \/ end_of_pass

SpecApi == InitApi /\ [][NextApi]_vars

\* C29: every pass that has yielded rows either ends the loop, with the
\* CSV to be written when found <= 2000 or with the return after a captcha,
\* or leaves end_date strictly earlier than it was before the pass; a pass
\* without rows does not go on to another pass, and a call is otherwise cut
\* short only by an HTTP error or by the absence of rows.
C29_PassEndsLoopOrMovesEndDateBack ==
    /\ (api.pc \in {"while", "written", "raised"} /\ api.passes > 0) =>
          \/ api.pc \in {"while", "written"} /\ api.found <= 2000
          \/ api.pc = "while" /\ api.end_date < api.before_pass
          \/ api.pc = "raised" /\ api.raised \in {"HTTPError", "AttributeError"}
    /\ (api.pc = "while" /\ api.passes > 0) => ~api.last_row.none

----------------------------------------------------------------------------
(* execute_vacancies of hhparser.py: the parameters are set one after the   *)
(* other, then the file is read, then the table is printed.  Russian texts  *)
(* are written in Latin letters: Nazvanie, Oklad, Da, Net name the filter   *)
(* and sort keys and the two orders.  A filter string is the list of the    *)
(* parts that ': ' separates, a range string the list of the words that     *)
(* ' ' separates after strip(); <<>> is the empty string.                   *)

FormatIncorrect == "Format vvoda nekorrekten"
SearchParamIncorrect == "Parametr poiska nekorrekten"
SortParamIncorrect == "Parametr sortirovki nekorrekten"
SortOrderIncorrect == "Poryadok sortirovki zadan nekorrektno"
RangeIncorrect == "Diapazon vakansij dolzhen soderzhat 1 ili 2 chisla."
EmptyFileMessage == "Pustoj fajl"
NothingFound == "Nichego ne najdeno"
NoData == "Net dannyh"

\* two of the keys of InputConect._filters
FilterKeys == {"Nazvanie", "Oklad"}

\* InputConect._sorters: a callable for Nazvanie, a string for area_name
Sorters == [k \in {"Nazvanie", "area_name"} |->
               IF k = "Nazvanie" THEN [callable |-> TRUE, key |-> "name"]
               ELSE [callable |-> FALSE, key |-> ""]]

\* bool_naming.values() with reversed_bool_naming
ReversedBoolNaming == [t \in {"Da", "Net"} |-> t = "Da"]

\* int(text) of the words that are integers
RangeInt == [t \in {"1", "2", "3"} |->
               IF t = "1" THEN 1 ELSE IF t = "2" THEN 2 ELSE 3]

FilterStrings == {<<>>, <<"Nazvanie", "SE">>, <<"Nazvanie", "X">>,
                  <<"Nazvanie">>, <<"Zarplata", "100">>,
                  <<"Oklad", "100">>, <<"Oklad", "abc">>}
SortColumns == {"", "Nazvanie", "area_name", "Oklad"}
SortOrders == {"", "Da", "Net", "Mozhet"}
NumberStrings == {<<>>, <<"1">>, <<"1", "2">>, <<"1", "2", "3">>, <<"abc">>}
ColumnsStrings == {"", "Nazvanie"}

\* InputConect() as its class attributes leave it
InputConect_init ==
    [filter_key |-> "", filter_value |-> "", sorter |-> "",
     reverse_sort |-> FALSE, start_number |-> 0, end_number |-> 0,
     columns_string |-> ""]

\* InputConect.set_filter_string
set_filter_string(conect, filter_string) ==
    IF filter_string = <<>> THEN [raised |-> "", message |-> "", conect |-> conect]
    ELSE IF Len(filter_string) # 2
    THEN [raised |-> "FilterException", message |-> FormatIncorrect,
          conect |-> conect]
    ELSE IF filter_string[1] \notin FilterKeys
    THEN [raised |-> "FilterException", message |-> SearchParamIncorrect,
          conect |-> conect]
    ELSE [raised |-> "", message |-> "",
          conect |-> [conect EXCEPT !.filter_key = filter_string[1],
                                    !.filter_value = filter_string[2]]]

\* InputConect.set_sort_params
set_sort_params(conect, sort_string, reverse_str) ==
    IF sort_string # "" /\ sort_string \notin DOMAIN Sorters
    THEN [raised |-> "SortException", message |-> SortParamIncorrect,
          conect |-> conect]
    ELSE LET sorted_set == IF sort_string = "" THEN conect
                           ELSE [conect EXCEPT !.sorter = sort_string]
         IN IF reverse_str = ""
            THEN [raised |-> "", message |-> "", conect |-> sorted_set]
            ELSE IF reverse_str \notin DOMAIN ReversedBoolNaming
            THEN [raised |-> "SortException", message |-> SortOrderIncorrect,
                  conect |-> sorted_set]
            ELSE [raised |-> "", message |-> "",
                  conect |-> [sorted_set EXCEPT
                                !.reverse_sort = ReversedBoolNaming[reverse_str]]]

\* InputConect.set_number_string: int() of a word that is no integer raises
\* ValueError
set_number_string(conect, number_string) ==
    IF number_string = <<>> THEN [raised |-> "", message |-> "", conect |-> conect]
    ELSE IF Len(number_string) > 2
    THEN [raised |-> "NumberStringException", message |-> RangeIncorrect,
          conect |-> conect]
    ELSE IF number_string[1] \notin DOMAIN RangeInt
    THEN [raised |-> "ValueError", message |-> "", conect |-> conect]
    ELSE LET started == [conect EXCEPT
                           !.start_number = RangeInt[number_string[1]]]
         IN IF Len(number_string) = 1
            THEN [raised |-> "", message |-> "", conect |-> started]
            ELSE IF number_string[2] \notin DOMAIN RangeInt
            THEN [raised |-> "ValueError", message |-> "", conect |-> started]
            ELSE [raised |-> "", message |-> "",
                  conect |-> [started EXCEPT
                                !.end_number = RangeInt[number_string[2]]]]

\* the try block of lines 1463-1469: the three setters in their order
set_parameters(filter_string, sort_column, sort_reversed_string, number_string) ==
    LET filtered == set_filter_string(InputConect_init, filter_string)
        sorted == set_sort_params(filtered.conect, sort_column,
                                  sort_reversed_string)
        numbered == set_number_string(sorted.conect, number_string)
    IN IF filtered.raised # "" THEN filtered
       ELSE IF sorted.raised # "" THEN sorted
       ELSE numbered

\* execute_vacancies up to set_columns_string
execute_vacancies(filter_string, sort_column, sort_reversed_string, number_string, columns_string) ==
    /\ cli.pc = "idle"
    /\ LET set == set_parameters(filter_string, sort_column,
                                 sort_reversed_string, number_string)
           args == [filter_string |-> filter_string,
                    sort_column |-> sort_column,
                    sort_reversed_string |-> sort_reversed_string,
                    number_string |-> number_string]
           begun == [pc |-> "set", args |-> args, conect |-> set.conect,
                     out |-> <<>>, raised |-> "", file_read |-> FALSE,
                     file |-> <<>>, vacancy_objects |-> <<>>]
       IN cli' = IF set.raised \in {"FilterException", "SortException",
                                    "NumberStringException"}
                 THEN [begun EXCEPT !.pc = "returned", !.out = <<set.message>>]
                 ELSE IF set.raised # ""
                 THEN [begun EXCEPT !.pc = "raised", !.raised = set.raised]
                 ELSE [begun EXCEPT
                         !.conect.columns_string = columns_string]
    /\ UNCHANGED <<prof, rows, chunks, sp, paths, cf, folded, pc, printed,
                   ctr, hist, last, source, dir, run, csv_files, agg, api, fetch>>

\* data = DataSet(file_name), lines 1472-1476
execute_vacancies_read(file) ==
    /\ cli.pc = "set"
    /\ LET data == DataSet_new(file)
           opened == [cli EXCEPT !.file_read = TRUE, !.file = file]
       IN cli' = IF data.raised = "EmptyFileException"
                 THEN [opened EXCEPT !.pc = "returned",
                                     !.out = Append(@, EmptyFileMessage)]
                 ELSE IF data.raised # ""
                 THEN [opened EXCEPT !.pc = "raised", !.raised = data.raised]
                 ELSE [opened EXCEPT !.pc = "read",
                                     !.vacancy_objects = data.vacancy_objects]
    /\ UNCHANGED <<prof, rows, chunks, sp, paths, cf, folded, pc, printed,
                   ctr, hist, last, source, dir, run, csv_files, agg, api, fetch>>

\* self._filters[self.filter_key](vac, self.filter_value)
filter_accepts(conect, vac) ==
    IF conect.filter_key = "Nazvanie"
    THEN conect.filter_value \in DOMAIN NameText
         /\ vac.name = NameText[conect.filter_value]
    ELSE /\ vac.salary.from_amount <= NumberText[conect.filter_value]
         /\ NumberText[conect.filter_value] <= vac.salary.to_amount

\* InputConect.print_as_table(vacancies): the filter, the sort, the table.
\* The rows of these files have no key_skills column, so _format_vacancy
\* raises TypeError on the first vacancy it is given.
print_as_table(conect, vacancies) ==
    LET filter_raises == /\ conect.filter_key = "Oklad"
                         /\ conect.filter_value \notin DOMAIN NumberText
                         /\ vacancies # <<>>
        filtered == IF conect.filter_key = "" \/ filter_raises THEN vacancies
                    ELSE SelectSeq(vacancies,
                                   LAMBDA vac : filter_accepts(conect, vac))
    IN IF filter_raises THEN [raised |-> "ValueError", out |-> <<>>]
       ELSE IF conect.filter_key # "" /\ filtered = <<>>
       THEN [raised |-> "FilterException", out |-> <<NothingFound>>]
       ELSE IF conect.sorter # "" /\ ~Sorters[conect.sorter].callable
               /\ filtered # <<>>
       THEN [raised |-> "TypeError", out |-> <<>>]
       ELSE IF filtered = <<>> THEN [raised |-> "", out |-> <<NoData>>]
       ELSE [raised |-> "TypeError", out |-> <<>>]

\* conect.print_as_table(data.vacancy_objects), lines 1478-1481
execute_vacancies_print ==
    /\ cli.pc = "read"
    /\ LET shown == print_as_table(cli.conect, cli.vacancy_objects)
       IN cli' = IF shown.raised \in {"", "FilterException"}
                 THEN [cli EXCEPT !.pc = "returned", !.out = @ \o shown.out]
                 ELSE [cli EXCEPT !.pc = "raised", !.raised = shown.raised]
    /\ UNCHANGED <<prof, rows, chunks, sp, paths, cf, folded, pc, printed,
                   ctr, hist, last, source, dir, run, csv_files, agg, api, fetch>>

InitCli ==
    /\ NoPipeline
    /\ NoCounters
    /\ NoText

NextCli ==
    \/ \E filter_string \in FilterStrings, sort_column \in SortColumns,
          sort_reversed_string \in SortOrders,
          number_string \in NumberStrings,
          columns_string \in ColumnsStrings :
          execute_vacancies(filter_string, sort_column, sort_reversed_string,
                            number_string, columns_string)
    \/ \E file \in ChunkTextFiles \cup BlankFiles :
          execute_vacancies_read(file)
    \/ execute_vacancies_print

SpecCli == InitCli /\ [][NextCli]_vars

\* which parameter of a call is the first one that is not valid: a filter
\* string that is not `key: value` with a known key, a sort column that is
\* not known, an order that is neither Da nor Net, a range that is not one
\* or two integers
FirstInvalid(args) ==
    IF args.filter_string # <<>>
       /\ (Len(args.filter_string) # 2
           \/ args.filter_string[1] \notin FilterKeys)
    THEN "filter"
    ELSE IF args.sort_column \notin {""} \cup DOMAIN Sorters THEN "sort"
    ELSE IF args.sort_reversed_string \notin {"", "Da", "Net"} THEN "order"
    ELSE IF args.number_string # <<>>
            /\ (Len(args.number_string) > 2
                \/ \E i \in DOMAIN args.number_string :
                      args.number_string[i] \notin DOMAIN RangeInt)
    THEN "range"
    ELSE ""

CliEnded == cli.pc \in {"returned", "raised"}

\* C21: a call whose first invalid parameter is the filter, the sort column,
\* the order or the range ends with exactly one message printed, the one of
\* that parameter, and without the file having been read; a call with valid
\* parameters on an empty file prints only the empty-file message, and on
\* a file with a header prints only the nothing-found message when the
\* filter accepts none of its vacancies.
C21_FirstInvalidParameterPrintsItsMessage ==
    CliEnded =>
        LET invalid == FirstInvalid(cli.args)
        IN /\ invalid # "" =>
                /\ cli.pc = "returned"
                /\ Len(cli.out) = 1
                /\ ~cli.file_read
                /\ invalid = "filter" =>
                      cli.out[1] \in {FormatIncorrect, SearchParamIncorrect}
                /\ invalid = "sort" => cli.out[1] = SortParamIncorrect
                /\ invalid = "order" => cli.out[1] = SortOrderIncorrect
           /\ (invalid = "" /\ cli.file_read /\ cli.file = <<>>) =>
                cli.out = <<EmptyFileMessage>>
           /\ (/\ invalid = ""
               /\ cli.pc = "returned"
               /\ cli.file_read
               /\ cli.file # <<>>
               /\ ~read_csv(cli.file).none
               /\ cli.conect.filter_key # ""
               /\ \/ cli.conect.filter_key = "Nazvanie"
                  \/ cli.conect.filter_value \in DOMAIN NumberText
               /\ \A i \in DOMAIN cli.vacancy_objects :
                     ~filter_accepts(cli.conect, cli.vacancy_objects[i])) =>
                cli.out = <<NothingFound>>

====
